---- MODULE Spec2Model ----
(***************************************************************************)
(* Model of mwptoolkit/trainer/trainer.py: the trainer family              *)
(* (Trainer, SingleEquationTrainer, MultiEquationTrainer, GTSTrainer,      *)
(* TransformerTrainer, SeqGANTrainer), their fit() loop, evaluate(), the   *)
(* best-model file and the checkpoint file.                                *)
(*                                                                         *)
(* Abstractions.  Model weights are identified by the number of optimizer  *)
(* steps that produced them; an optimizer or scheduler state_dict is its   *)
(* step counter; an accuracy is the exact fraction count/total (Python     *)
(* float division of two small integers), kept in lowest terms; the        *)
(* wall-clock values returned next to the accuracies are left out.         *)
(***************************************************************************)
EXTENDS Integers, Sequences, FiniteSets, TLC

\* ------------------------------------------------------------------ bounds
MaxEpochNums == 6
MaxRuns == 2
EvMaxBatches == 2
EvMaxBatchSize == 2
StubClasses == 2
RwMaxSteps == 2
IxMaxBatch == 2
IxMaxLen == 2
GtsMaxEpochNums == 7
OpsMaxEpochNums == 2

\* The validation and test splits of a fit() run: empty, or one batch of one
\* example. fit() only compares accuracies with >=, and the two accuracies 0
\* and 1 already give it every outcome of that comparison.
EvalSplitSizes == {0, 1}

\* The training split of a fit() run: one batch per training pass.
TrainSplitSizes == {1}

\* The training split of runs followed batch by batch: one or two batches
\* per training pass.
TrainPassSizes == {1, 2}

\* ------------------------------------------------------- program constants
EvalEvery == 2
EvalEveryGTS == 10
LastEpochs == 5
CheckpointEvery == 5
PretrainEpochs == 20

\* ------------------------------------------------------------ the variants
SingleOptimizer == {"Trainer", "SingleEquationTrainer", "MultiEquationTrainer", "TransformerTrainer"}
Variants == SingleOptimizer \cup {"GTSTrainer", "SeqGANTrainer"}

\* ------------------------------------------------------------- fractions
RECURSIVE GCD(_, _)
GCD(a, b) == IF b = 0 THEN a ELSE GCD(b, a % b)

\* count / total for total > 0, in lowest terms
Div(count, total) == <<count \div GCD(count, total), total \div GCD(count, total)>>

\* 0. of AbstractTrainer.__init__
Zero == <<0, 1>>

\* a >= b on fractions
Geq(a, b) == a[1] * b[2] >= b[1] * a[2]

Leq(a, b) == Geq(b, a)

\* ---------------------------------------------------- evaluator and splits
\* evaluator.result(...)[0:2] for one example: <<val_ac, equ_ac>>
Outcome == BOOLEAN \X BOOLEAN

\* the results of an evaluator for which an equation match is a value match
SoundOutcome == {o \in Outcome : o[2] => o[1]}

\* the batches of a split with n batches of one example each, under such an
\* evaluator
SplitResults(n) == [1..n -> [1..1 -> SoundOutcome]]

\* the batches load_data(eval_set) can yield: up to EvMaxBatches batches of 1
\* to EvMaxBatchSize examples each, under such an evaluator
EvalBatches == UNION {[1..k -> SoundOutcome] : k \in 1..EvMaxBatchSize}

EvalSplits == UNION {[1..n -> EvalBatches] : n \in 0..EvMaxBatches}

\* list.count(True)
RECURSIVE CountTrue(_)
CountTrue(s) == IF s = <<>> THEN 0 ELSE (IF Head(s) THEN 1 ELSE 0) + CountTrue(Tail(s))

\* _eval_batch scoring every example of the batch, in every variant
EvalBatchEveryExample(v, batch) ==
    [val_acc |-> [i \in DOMAIN batch |-> batch[i][1]],
     equ_acc |-> [i \in DOMAIN batch |-> batch[i][2]]]

\* _eval_batch: the lists (val_acc, equ_acc) of one batch of evaluator results.
\* GTSTrainer scores example 0 of the batch only.
EvalBatch(v, batch) ==
    IF v = "GTSTrainer"
    THEN [val_acc |-> <<batch[1][1]>>, equ_acc |-> <<batch[1][2]>>]
    ELSE [val_acc |-> [i \in DOMAIN batch |-> batch[i][1]],
          equ_acc |-> [i \in DOMAIN batch |-> batch[i][2]]]

\* the loop of evaluate() adding one to eval_total for each batch
EvalAccumulatePerBatch(acc, b) ==
    [value_ac    |-> acc.value_ac + CountTrue(b.val_acc),
     equation_ac |-> acc.equation_ac + CountTrue(b.equ_acc),
     eval_total  |-> acc.eval_total + 1]

\* one iteration of the loop of evaluate()
EvalAccumulate(acc, b) ==
    [value_ac    |-> acc.value_ac + CountTrue(b.val_acc),
     equation_ac |-> acc.equation_ac + CountTrue(b.equ_acc),
     eval_total  |-> acc.eval_total + Len(b.val_acc)]

RECURSIVE EvalLoop(_, _, _)
EvalLoop(v, batches, acc) ==
    IF batches = <<>> THEN acc
    ELSE EvalLoop(v, Tail(batches), EvalAccumulate(acc, EvalBatch(v, Head(batches))))

\* the return statement of evaluate(): both quotients divide by eval_total
EvalReturn(acc) ==
    IF acc.eval_total = 0
    THEN [raised |-> TRUE, exc |-> "ZeroDivisionError"]
    ELSE [raised |-> FALSE,
          equ_ac |-> Div(acc.equation_ac, acc.eval_total),
          val_ac |-> Div(acc.value_ac, acc.eval_total),
          total  |-> acc.eval_total]

\* evaluate(eval_set) on the evaluator results of the split's batches
evaluate(v, batches) ==
    EvalReturn(EvalLoop(v, batches, [value_ac |-> 0, equation_ac |-> 0, eval_total |-> 0]))

\* ------------------------------------------------------------- get_reward
\* a + b on fractions, in lowest terms
AddFrac(a, b) == Div(a[1] * b[2] + b[1] * a[2], a[2] * b[2])

\* outputs.size(0): the batch sizes get_reward is called with
RwBatchSizes == {1, 2}

\* the values of reward * token_logits[idx] at one position, before the mask
WeightedRewards == {-1, 2}

RECURSIVE SumSeq(_)
SumSeq(q) == IF q = <<>> THEN 0 ELSE Head(q) + SumSeq(Tail(q))

\* column idx of outputs compared with out_pad_token, as 0 / 1
Mask(outputs, idx) == [b \in DOMAIN outputs |-> IF outputs[b][idx] # "pad" THEN 1 ELSE 0]

\* the loop body of get_reward dividing without the test of mask_sum
RewardStepUnguarded(rewards, outputs, weighted, idx) ==
    LET mask == Mask(outputs, idx)
        mask_sum == SumSeq(mask)
        reward == [b \in DOMAIN mask |-> weighted[idx][b] * mask[b]]
    IN IF rewards.raised \/ mask_sum = 0
       THEN [raised |-> TRUE, exc |-> "ZeroDivisionError"]
       ELSE [raised |-> FALSE, value |-> AddFrac(rewards.value, Div(SumSeq(reward), mask_sum))]

\* one iteration of the loop of get_reward
RewardStep(rewards, outputs, weighted, idx) ==
    LET mask == Mask(outputs, idx)
        mask_sum == SumSeq(mask)
        reward == [b \in DOMAIN mask |-> weighted[idx][b] * mask[b]]
    IN IF rewards.raised \/ mask_sum = 0 THEN rewards
       ELSE [raised |-> FALSE, value |-> AddFrac(rewards.value, Div(SumSeq(reward), mask_sum))]

RECURSIVE RewardLoop(_, _, _, _)
RewardLoop(rewards, outputs, weighted, idx) ==
    IF idx > Len(weighted) THEN rewards
    ELSE RewardLoop(RewardStep(rewards, outputs, weighted, idx), outputs, weighted, idx + 1)

\* get_reward(outputs, monte_carlo_outputs, token_logits): -rewards
get_reward(outputs, weighted) ==
    LET rewards == RewardLoop([raised |-> FALSE, value |-> Zero], outputs, weighted, 1)
    IN IF rewards.raised THEN rewards
       ELSE [raised |-> FALSE, value |-> <<-rewards.value[1], rewards.value[2]>>]

\* the arguments get_reward can be called with on a batch: the generated
\* tokens, the weighted rewards of the rollout steps, and whether every
\* token of the batch's target equation is padding
RewardInputs ==
    UNION {[outputs : [1..n -> [1..k -> {"pad", "tok"}]],
            weighted : [1..k -> [1..n -> WeightedRewards]],
            equation_all_pad : BOOLEAN] :
              k \in 0..RwMaxSteps, n \in RwBatchSizes}

\* --------------------------------------------------------- _idx2word_2idx
\* the words of the input vocabulary, and the indices the output vocabulary
\* can give them
IxWords == {"plus", "x"}
IxOutIdx == {1, 5}

\* dataset.in_idx2word: a list of distinct words, indexed from 0
IxInVocabs == {f \in [1..Cardinality(IxWords) -> IxWords] : \A i, j \in DOMAIN f : f[i] = f[j] => i = j}

\* dataset.out_symbol2idx: a dict over some of the words
IxOutVocabs == UNION {[S -> IxOutIdx] : S \in SUBSET IxWords}

\* a lookup that gives index 0 to a word the output vocabulary lacks
LookupUnknownAsZero(in_idx2word, out_symbol2idx, x) ==
    IF x + 1 \notin DOMAIN in_idx2word THEN [raised |-> TRUE, exc |-> "IndexError"]
    ELSE IF in_idx2word[x + 1] \notin DOMAIN out_symbol2idx THEN [raised |-> FALSE, value |-> 0]
    ELSE [raised |-> FALSE, value |-> out_symbol2idx[in_idx2word[x + 1]]]

\* out_symbol2idx[in_idx2word[x]]: list index, then dict lookup
Lookup(in_idx2word, out_symbol2idx, x) ==
    IF x + 1 \notin DOMAIN in_idx2word THEN [raised |-> TRUE, exc |-> "IndexError"]
    ELSE IF in_idx2word[x + 1] \notin DOMAIN out_symbol2idx
    THEN [raised |-> TRUE, exc |-> "KeyError"]
    ELSE [raised |-> FALSE, value |-> out_symbol2idx[in_idx2word[x + 1]]]

\* the two nested loops of _idx2word_2idx from position (b, idx) on, with the
\* row built so far in equation and the finished rows in batch_equation_
RECURSIVE Idx2WordLoop(_, _, _, _, _, _, _)
Idx2WordLoop(in_idx2word, out_symbol2idx, batch_equation, b, idx, equation, batch_equation_) ==
    IF b > Len(batch_equation) THEN [raised |-> FALSE, value |-> batch_equation_]
    ELSE IF idx > Len(batch_equation[b])
    THEN Idx2WordLoop(in_idx2word, out_symbol2idx, batch_equation, b + 1, 1, <<>>,
                      Append(batch_equation_, equation))
    ELSE LET r == Lookup(in_idx2word, out_symbol2idx, batch_equation[b][idx])
         IN IF r.raised THEN r
            ELSE Idx2WordLoop(in_idx2word, out_symbol2idx, batch_equation, b, idx + 1,
                              Append(equation, r.value), batch_equation_)

\* _idx2word_2idx(batch_equation)
Idx2Word2Idx(in_idx2word, out_symbol2idx, batch_equation) ==
    Idx2WordLoop(in_idx2word, out_symbol2idx, batch_equation, 1, 1, <<>>, <<>>)

\* the vocabularies of a dataset and a batch of target indices into the
\* input vocabulary
Idx2WordInputs ==
    [in_idx2word : IxInVocabs,
     out_symbol2idx : IxOutVocabs,
     batch_equation : UNION {[1..n -> [1..k -> 0..(Cardinality(IxWords) - 1)]] :
                               n \in 1..IxMaxBatch, k \in 1..IxMaxLen}]

\* ------------------------------------------------------------------- state
VARIABLES
    variant,            \* the trainer class that is constructed
    epoch_nums,         \* config["epoch_nums"]
    train_batches,      \* number of batches load_data(Train) yields
    valid_batches,      \* number of batches load_data(Valid) yields
    test_batches,       \* number of batches load_data(Test) yields
    det,                \* TRUE: model and evaluator are a deterministic stub
    stub,               \* the stub's evaluator results, by <<weights, split>>
    pc,                 \* position of the trainer process
    exc,                \* the exception that ended the process, if any
    resume,             \* config["resume"] of the running process
    self,               \* the trainer object's attributes
    mode,               \* "train" / "eval" flag of the model
    epo,                \* loop variable of fit()
    batch_idx,          \* batches done in the current training pass
    pre_epo,            \* loop variable of train_generator / train_discriminator
    valid_equ_ac, valid_val_ac, test_equ_ac, test_val_ac,   \* locals of fit()
    checkpoint_file,    \* the file at config["checkpoint_path"]
    trained_model_file, \* the file at config["trained_model_path"]
    runs,               \* trainers constructed so far
    trainLog,           \* epochs whose training pass has completed, this fit()
    evalLog,            \* epochs whose validation and test evaluation completed
    lastSave,           \* <<epoch of this fit()'s latest best-model save>>, if any
    ckptLog,            \* epochs at whose end a checkpoint was written
    events,             \* the steps taken so far in the current epoch
    saved,              \* the trainer's attributes and epo at the last _save_checkpoint
    ended,              \* where the previous process ended
    ev_batches,         \* input of a stand-alone evaluate() call
    ev_result,          \* its result
    test_out,           \* what a test() call did
    rw_in,              \* arguments of a stand-alone get_reward() call
    rw_out,             \* its result
    ix_in,              \* vocabularies and argument of an _idx2word_2idx() call
    ix_out,             \* its result
    train_pass,         \* the operations of the current _train_epoch() call
    ckpt_reads          \* torch.load calls on checkpoint_path by the current process

cfgVars == <<variant, epoch_nums, train_batches, valid_batches, test_batches, det>>
fileVars == <<checkpoint_file, trained_model_file>>
measVars == <<valid_equ_ac, valid_val_ac, test_equ_ac, test_val_ac>>
logVars == <<trainLog, evalLog, lastSave, ckptLog>>
opVars == <<test_out, rw_in, rw_out, ix_in, ix_out, train_pass, ckpt_reads>>
evVars == <<ev_batches, ev_result, opVars>>
vars == <<cfgVars, stub, pc, exc, resume, self, mode, epo, batch_idx, pre_epo, measVars,
          fileVars, runs, logVars, events, saved, ended, evVars>>

NoFile == [exists |-> FALSE]

\* a file that torch.save has opened for writing and not finished
TornFile == [exists |-> TRUE, torn |-> TRUE]
NoExc == [type |-> "none", at |-> "none"]
NoSelf == [constructed |-> FALSE]

\* ------------------------------------------------- optimizers, schedulers
\* _build_optimizer: the optimizer attributes of each variant
OptimizerNames(v) ==
    CASE v = "GTSTrainer" -> {"embedder_optimizer", "encoder_optimizer", "decoder_optimizer",
                              "node_generater_optimizer", "merge_optimizer"}
      [] v = "SeqGANTrainer" -> {"generator_optimizer", "discriminator_optimizer"}
      [] OTHER -> {"optimizer"}

\* _build_optimizer: the scheduler attributes (GTSTrainer only)
SchedulerNames(v) ==
    IF v = "GTSTrainer"
    THEN {"embedder_scheduler", "encoder_scheduler", "decoder_scheduler",
          "node_generater_scheduler", "merge_scheduler"}
    ELSE {}

\* the submodules of the GTS model
GTSModules == {"embedder", "encoder", "decoder", "node_generater", "merge"}

\* GTSTrainer._build_optimizer: the submodules whose parameters the optimizer
\* was constructed over; decoder_optimizer gets self.model.parameters()
OptimizerParams(o) ==
    CASE o = "embedder_optimizer" -> {"embedder"}
      [] o = "encoder_optimizer" -> {"encoder"}
      [] o = "decoder_optimizer" -> GTSModules
      [] o = "node_generater_optimizer" -> {"node_generater"}
      [] o = "merge_optimizer" -> {"merge"}

\* attribute assignment self.a = x
SetAttr(s, a, x) == [k \in DOMAIN s \cup {a} |-> IF k = a THEN x ELSE s[k]]

\* AbstractTrainer.__init__ followed by _build_optimizer, on a fresh model
NewTrainer(v) ==
    [k \in {"model", "best_valid_equ_accuracy", "best_valid_value_accuracy",
            "best_test_equ_accuracy", "best_test_value_accuracy", "start_epoch", "epoch_i"}
           \cup OptimizerNames(v) \cup SchedulerNames(v) |->
        IF k \in {"best_valid_equ_accuracy", "best_valid_value_accuracy",
                  "best_test_equ_accuracy", "best_test_value_accuracy"}
        THEN Zero ELSE 0]

\* ------------------------------------------------------------ checkpoints
\* a Python dict display: a later pair with the same key replaces an earlier one
DictOf(pairs) ==
    [k \in {pairs[i][1] : i \in DOMAIN pairs} |->
        pairs[CHOOSE i \in DOMAIN pairs :
                 /\ pairs[i][1] = k
                 /\ \A j \in DOMAIN pairs : j > i => pairs[j][1] # k][2]]

\* the entries with the test value accuracy stored under both value keys
BestPairsCrossed(s) ==
    << <<"best_valid_value_accuracy", s.best_test_value_accuracy>>,
       <<"best_valid_equ_accuracy", s.best_valid_equ_accuracy>>,
       <<"best_test_value_accuracy", s.best_test_value_accuracy>>,
       <<"best_test_equ_accuracy", s.best_test_equ_accuracy>> >>

\* the four best-accuracy entries every _save_checkpoint writes
BestPairs(s) ==
    << <<"best_valid_value_accuracy", s.best_valid_value_accuracy>>,
       <<"best_valid_equ_accuracy", s.best_valid_equ_accuracy>>,
       <<"best_test_value_accuracy", s.best_test_value_accuracy>>,
       <<"best_test_equ_accuracy", s.best_test_equ_accuracy>> >>

\* check_pnt with the loop index epo stored as start_epoch
SingleCheckPntEpo(s) ==
    << <<"model", s.model>>,
       <<"optimizer", s.optimizer>>,
       <<"start_epoch", s.epoch_i - 1>> >> \o BestPairs(s)

\* check_pnt of Trainer / SingleEquationTrainer / MultiEquationTrainer /
\* TransformerTrainer._save_checkpoint
SingleCheckPnt(s) ==
    << <<"model", s.model>>,
       <<"optimizer", s.optimizer>>,
       <<"start_epoch", s.epoch_i>> >> \o BestPairs(s)

\* check_pnt of GTSTrainer._save_checkpoint
GTSCheckPnt(s) ==
    << <<"model", s.model>>,
       <<"embedder_optimizer", s.embedder_optimizer>>,
       <<"encoder_optimizer", s.encoder_optimizer>>,
       <<"decoder_optimizer", s.decoder_optimizer>>,
       <<"generate_optimizer", s.node_generater_optimizer>>,
       <<"merge_optimizer", s.merge_optimizer>>,
       <<"embedder_scheduler", s.embedder_scheduler>>,
       <<"encoder_scheduler", s.encoder_scheduler>>,
       <<"decoder_optimizer", s.decoder_optimizer>>,
       <<"generate_scheduler", s.node_generater_scheduler>>,
       <<"merge_scheduler", s.merge_scheduler>>,
       <<"start_epoch", s.epoch_i>> >> \o BestPairs(s)

\* check_pnt of SeqGANTrainer._save_checkpoint
SeqGANCheckPnt(s) ==
    << <<"model", s.model>>,
       <<"generator_optimizer", s.generator_optimizer>>,
       <<"discriminator_optimizer", s.discriminator_optimizer>> >> \o BestPairs(s)

\* _save_checkpoint: the record torch.save writes to checkpoint_path
CheckPnt(v, s) ==
    DictOf(CASE v = "GTSTrainer" -> GTSCheckPnt(s)
             [] v = "SeqGANTrainer" -> SeqGANCheckPnt(s)
             [] OTHER -> SingleCheckPnt(s))

\* the scalar reads of _load_checkpoint shared by the first five variants,
\* as <<key read, attribute assigned>>
BestLoads ==
    << <<"start_epoch", "start_epoch">>,
       <<"best_valid_value_accuracy", "best_valid_value_accuracy">>,
       <<"best_valid_equ_accuracy", "best_valid_equ_accuracy">>,
       <<"best_test_value_accuracy", "best_test_value_accuracy">>,
       <<"best_test_equ_accuracy", "best_test_equ_accuracy">> >>

\* _load_checkpoint without its optimizer.load_state_dict statement
LoadOrderSkipsOptimizer(v) == << <<"model", "model">> >> \o BestLoads

\* the reads of _load_checkpoint, in program order
LoadOrder(v) ==
    CASE v = "GTSTrainer" ->
           << <<"model", "model">>,
              <<"embedder_optimizer", "embedder_optimizer">>,
              <<"encoder_optimizer", "encoder_optimizer">>,
              <<"decoder_optimizer", "decoder_optimizer">>,
              <<"generate_optimizer", "node_generater_optimizer">>,
              <<"merge_optimizer", "merge_optimizer">>,
              <<"embedding_scheduler", "embedder_scheduler">>,
              <<"encoder_scheduler", "encoder_scheduler">>,
              <<"decoder_scheduler", "decoder_scheduler">>,
              <<"generate_scheduler", "node_generater_scheduler">>,
              <<"merge_scheduler", "merge_scheduler">> >> \o BestLoads
      [] v = "SeqGANTrainer" ->
           << <<"model", "model">>,
              <<"generator_optimizer", "generator_optimizer">>,
              <<"discriminator_optimizer", "discriminator_optimizer">>,
              <<"start_epoch", "start_epoch">>,
              <<"value_acc", "best_value_accuracy">>,
              <<"equ_acc", "best_equ_accuracy">> >>
      [] OTHER ->
           << <<"model", "model">>, <<"optimizer", "optimizer">> >> \o BestLoads

\* _load_checkpoint reading every key with a default: a missing key leaves
\* its attribute as it is and the load goes on
RECURSIVE LoadIntoSkipsMissing(_, _, _)
LoadIntoSkipsMissing(loads, check_pnt, s) ==
    IF loads = <<>> THEN [raised |-> FALSE, self |-> s]
    ELSE IF Head(loads)[1] \notin DOMAIN check_pnt
         THEN LoadIntoSkipsMissing(Tail(loads), check_pnt, s)
         ELSE LoadIntoSkipsMissing(Tail(loads), check_pnt,
                                   SetAttr(s, Head(loads)[2], check_pnt[Head(loads)[1]]))

\* the statements of _load_checkpoint after torch.load, one read each; a
\* missing key raises KeyError and leaves the assignments made before it
RECURSIVE LoadInto(_, _, _)
LoadInto(loads, check_pnt, s) ==
    IF loads = <<>> THEN [raised |-> FALSE, self |-> s]
    ELSE IF Head(loads)[1] \notin DOMAIN check_pnt
         THEN [raised |-> TRUE, self |-> s]
         ELSE LoadInto(Tail(loads), check_pnt,
                       SetAttr(s, Head(loads)[2], check_pnt[Head(loads)[1]]))

\* _load_checkpoint on the file at checkpoint_path
LoadCheckpoint(v, file, s) ==
    IF ~file.exists
    THEN [raised |-> TRUE, exc |-> "FileNotFoundError", self |-> s]
    ELSE IF file = TornFile
    THEN [raised |-> TRUE, exc |-> "UnpicklingError", self |-> s]
    ELSE LET r == LoadInto(LoadOrder(v), file.data, s)
         IN [raised |-> r.raised, exc |-> IF r.raised THEN "KeyError" ELSE "none",
             self |-> r.self]

\* ------------------------------------------------------------ construction
\* _build_optimizer: fresh optimizers (and schedulers) over the model
BuildOptimizer(v, s) ==
    [k \in DOMAIN s |-> IF k \in OptimizerNames(v) \cup SchedulerNames(v) THEN 0 ELSE s[k]]

\* the three statements every __init__ runs after its super().__init__:
\* _build_optimizer, then _load_checkpoint if config["resume"]
InitBody(v, r, file, s) ==
    IF r THEN LoadCheckpoint(v, file, BuildOptimizer(v, s))
    ELSE [raised |-> FALSE, exc |-> "none", self |-> BuildOptimizer(v, s)]

\* __init__ of the variant. SingleEquationTrainer and MultiEquationTrainer
\* extend Trainer and run InitBody again after Trainer.__init__ has run it.
TrainerInit(v, r, file) ==
    LET first == InitBody(v, r, file, NewTrainer(v))
    IN IF v \in {"SingleEquationTrainer", "MultiEquationTrainer"} /\ ~first.raised
       THEN InitBody(v, r, file, first.self)
       ELSE first

\* the torch.load calls on checkpoint_path that __init__ makes: one per
\* _load_checkpoint it reaches
CheckpointReads(v, r, file) ==
    IF ~r THEN 0
    ELSE IF /\ v \in {"SingleEquationTrainer", "MultiEquationTrainer"}
            /\ ~InitBody(v, r, file, NewTrainer(v)).raised
    THEN 2
    ELSE 1

\* ----------------------------------------------------------- fit(): rules
\* the evaluation condition without its last-epochs clause
EvalDueEverySecond(v, e, n) == e % EvalEvery = 0

\* the evaluation condition of the epoch loop
EvalDue(v, e, n) ==
    IF v = "GTSTrainer"
    THEN e % EvalEveryGTS = 0 \/ e > n - LastEpochs
    ELSE e % EvalEvery = 0 \/ e > n - LastEpochs

\* the checkpoint condition of the epoch loop
CkptDue(e) == e % CheckpointEvery = 0

\* the loop written as range(epoch_nums)
FirstEpochFromZero(s) == 0

\* the first index of range(self.start_epoch, epoch_nums)
FirstEpoch(s) == s.start_epoch

\* the comparison written with > instead of >=
ImprovedStrictly(val_ac, s) == ~Geq(s.best_valid_value_accuracy, val_ac)

\* the update made unconditional
ImprovedAlways(val_ac, s) == TRUE

\* the comparison that guards the best-metric update
Improved(val_ac, s) == Geq(val_ac, s.best_valid_value_accuracy)

\* the update without its two test-split assignments
UpdateBestValidOnly(s, vequ, vval, tequ, tval) ==
    [s EXCEPT !.best_valid_value_accuracy = vval,
              !.best_valid_equ_accuracy = vequ]

\* the four assignments under that comparison
UpdateBest(s, vequ, vval, tequ, tval) ==
    [s EXCEPT !.best_valid_value_accuracy = vval,
              !.best_valid_equ_accuracy = vequ,
              !.best_test_value_accuracy = tval,
              !.best_test_equ_accuracy = tequ]

\* _save_model: the record torch.save writes to trained_model_path
SaveModel(s) == [exists |-> TRUE, data |-> [model |-> s.model]]

\* _save_checkpoint: the file written at checkpoint_path
SaveCheckpoint(v, s) == [exists |-> TRUE, data |-> CheckPnt(v, s)]

\* optimizer.step() of every optimizer in names, once
StepOptimizers(s, names) == [k \in DOMAIN s |-> IF k \in names THEN s[k] + 1 ELSE s[k]]

\* _scheduler_step leaving out the merge scheduler
SchedulerStepSkipsMerge(v, s) == StepOptimizers(s, SchedulerNames(v) \ {"merge_scheduler"})

\* _scheduler_step: scheduler.step() of every scheduler of the variant, once
SchedulerStep(v, s) == StepOptimizers(s, SchedulerNames(v))

\* the values config["step_size"] can take
StepSizes == {1, 2, 3}

\* StepLR(optimizer, step_size, gamma=0.5): the number of times the learning
\* rate has been halved after last_epoch calls of step(); a call halves it
\* when the new count is a multiple of step_size
RECURSIVE StepLRHalvings(_, _)
StepLRHalvings(last_epoch, step_size) ==
    IF last_epoch = 0 THEN 0
    ELSE StepLRHalvings(last_epoch - 1, step_size) +
           (IF last_epoch % step_size = 0 THEN 1 ELSE 0)

\* one batch of _train_epoch: every optimizer of the variant steps once and
\* the weights change
TrainStep(v, s) == [StepOptimizers(s, OptimizerNames(v)) EXCEPT !.model = @ + 1]

\* ------------------------------------------- _train_epoch(): the operations
\* the values a batch loss can take
Losses == {1, 2}

\* a batch loop that steps the optimizer before the backward pass
BatchProgramStepFirst(v) ==
    << <<"zero_grad", "model">>,
       <<"forward", "model">>, <<"eval_batch", "loss">>, <<"get_loss", "loss">>,
       <<"add", "loss_total">>,
       <<"step", "optimizer">>,
       <<"backward", "loss">>,
       <<"reset", "loss">> >>

\* the body of the batch loop of _train_epoch with the _train_batch call
\* expanded, in program order, as <<operation, object>>
BatchProgram(v) ==
    CASE v = "GTSTrainer" ->
           << <<"zero_grad", "embedder">>, <<"zero_grad", "encoder">>,
              <<"zero_grad", "decoder">>, <<"zero_grad", "node_generater">>,
              <<"zero_grad", "merge">>,
              <<"forward", "model">>, <<"eval_batch", "loss">>, <<"get_loss", "loss">>,
              <<"add", "loss_total">>,
              <<"backward", "loss">>,
              <<"step", "embedder_optimizer">>, <<"step", "encoder_optimizer">>,
              <<"step", "decoder_optimizer">>, <<"step", "node_generater_optimizer">>,
              <<"step", "merge_optimizer">>,
              <<"reset", "loss">> >>
      [] v = "SeqGANTrainer" ->
           << <<"zero_grad", "model">>,
              <<"train", "generator">>, <<"eval", "discriminator">>,
              <<"forward", "generator">>, <<"get_loss", "g_loss">>,
              <<"eval", "generator">>, <<"train", "discriminator">>,
              <<"forward", "discriminator">>, <<"eval_batch", "binary_loss">>,
              <<"forward", "discriminator">>, <<"eval_batch", "binary_loss">>,
              <<"add_norm", "binary_loss">>, <<"get_loss", "binary_loss">>,
              <<"train", "generator">>, <<"train", "discriminator">>,
              <<"add", "g_loss_total">>,
              <<"backward", "g_loss">>, <<"step", "generator_optimizer">>,
              <<"add", "d_loss_total">>,
              <<"backward", "binary_loss">>, <<"step", "discriminator_optimizer">>,
              <<"reset", "binary_loss">> >>
      [] OTHER ->
           << <<"zero_grad", "model">>,
              <<"forward", "model">>, <<"eval_batch", "loss">>, <<"get_loss", "loss">>,
              <<"add", "loss_total">>,
              <<"backward", "loss">>,
              <<"step", "optimizer">>,
              <<"reset", "loss">> >>

\* the loss a running total adds up
LossSource(total) ==
    CASE total = "g_loss_total" -> "g_loss"
      [] total = "d_loss_total" -> "binary_loss"
      [] OTHER -> "loss"

\* the train/eval flags of <<generator, discriminator>> behind a mode; the
\* other models have one flag
ModeFlags(m) ==
    CASE m = "train" -> <<TRUE, TRUE>>
      [] m = "eval" -> <<FALSE, FALSE>>
      [] m = "g_train_d_eval" -> <<TRUE, FALSE>>
      [] OTHER -> <<FALSE, TRUE>>

FlagsMode(f) ==
    CASE f = <<TRUE, TRUE>> -> "train"
      [] f = <<FALSE, FALSE>> -> "eval"
      [] f = <<TRUE, FALSE>> -> "g_train_d_eval"
      [] OTHER -> "g_eval_d_train"

\* train() without effect: a model in inference mode stays in it
SetFlagEvalOnly(m, target, flag) == IF flag = "train" THEN m ELSE "eval"

\* target.train() or target.eval() on the model or one of its two parts
SetFlag(m, target, flag) ==
    LET f == ModeFlags(m)
        b == (flag = "train")
    IN CASE target = "generator" -> FlagsMode(<<b, f[2]>>)
         [] target = "discriminator" -> FlagsMode(<<f[1], b>>)
         [] OTHER -> FlagsMode(<<b, b>>)

\* which split fit() passes to its first evaluate() call
ValidSplit(v) == IF v = "TransformerTrainer" THEN "train" ELSE "valid"

\* the attributes the closing logger.info of fit() reads; variants without
\* that statement read none
FinalLogReads(v) ==
    IF v \in {"Trainer", "SingleEquationTrainer", "MultiEquationTrainer"}
    THEN <<"best_valid_equ_accuracy", "best_valid_value_accuracy", "best_test_equ_accuracyself">>
    ELSE <<>>

\* number of batches of a split
BatchCount(split) ==
    CASE split = "train" -> train_batches
      [] split = "valid" -> valid_batches
      [] OTHER -> test_batches

\* the deterministic stub answers by the class of the weights: weights of one
\* class give the same predictions on a split
StubKey(weights, split) == <<weights % StubClasses, split>>

\* the evaluator results evaluate() can see on a split with the current
\* weights: anything, or what the deterministic stub fixes for these weights
EvaluatorResults(split) ==
    IF det /\ StubKey(self.model, split) \in DOMAIN stub
    THEN {stub[StubKey(self.model, split)]}
    ELSE SplitResults(BatchCount(split))

Remember(split, r) ==
    IF det THEN [k \in DOMAIN stub \cup {StubKey(self.model, split)} |->
                    IF k = StubKey(self.model, split) THEN r ELSE stub[k]]
    ELSE stub

\* the exception is caught inside the epoch and fit() goes on to the
\* checkpoint step
RaiseSkipsEpoch(type, at) ==
    /\ pc' = "ckpt"
    /\ exc' = [type |-> type, at |-> at]

\* raise: no handler in fit() or below it, the exception leaves the call
Raise(type, at) ==
    /\ pc' = "raised"
    /\ exc' = [type |-> type, at |-> at]

\* -------------------------------------------------------------------- Init
\* no _train_epoch() call has been followed operation by operation
NoPass == [epo |-> -1, i |-> 0, ops |-> <<>>, batch_loss |-> <<>>, totals |-> <<>>,
           losses |-> <<>>]

NoEnd == [after_ckpt |-> FALSE, epo |-> -1]

\* no get_reward() or _idx2word_2idx() call is made
NoMethodInputs == rw_in = <<>> /\ ix_in = <<>>

\* no trainer constructed yet
InitProcess ==
    /\ stub = <<>>
    /\ pc = "none"
    /\ exc = NoExc
    /\ resume = FALSE
    /\ self = NoSelf
    /\ mode = "train"
    /\ epo = 0
    /\ batch_idx = 0
    /\ pre_epo = 0
    /\ valid_equ_ac = Zero /\ valid_val_ac = Zero
    /\ test_equ_ac = Zero /\ test_val_ac = Zero
    /\ trained_model_file = NoFile
    /\ runs = 0
    /\ trainLog = <<>> /\ evalLog = <<>> /\ lastSave = <<>> /\ ckptLog = <<>>
    /\ events = <<>>
    /\ ended = NoEnd
    /\ ev_result = [called |-> FALSE]
    /\ test_out = [called |-> FALSE]
    /\ rw_out = [called |-> FALSE]
    /\ ix_out = [called |-> FALSE]
    /\ train_pass = NoPass
    /\ ckpt_reads = 0

\* no trainer constructed yet, no file written yet
InitCommon ==
    /\ InitProcess
    /\ checkpoint_file = NoFile
    /\ saved = [written |-> FALSE]

\* the configuration and data of a fit() run
InitFit ==
    /\ epoch_nums \in 0..MaxEpochNums
    /\ train_batches \in TrainSplitSizes
    /\ valid_batches \in EvalSplitSizes
    /\ test_batches \in EvalSplitSizes
    /\ ev_batches = <<>>
    /\ NoMethodInputs

Init ==
    /\ variant \in Variants
    /\ det = FALSE
    /\ InitFit
    /\ InitCommon

\* ----------------------------------------------------------------- actions
\* a trainer is constructed in a new process, with or without config["resume"]
Construct ==
    /\ pc = "none"
    /\ runs < MaxRuns
    /\ \E r \in BOOLEAN :
         LET t == TrainerInit(variant, r, checkpoint_file)
         IN /\ resume' = r
            /\ self' = t.self
            /\ IF t.raised THEN Raise(t.exc, "__init__")
               ELSE pc' = "ready" /\ exc' = NoExc
    /\ ckpt_reads' = CheckpointReads(variant, resume', checkpoint_file)
    /\ runs' = runs + 1
    /\ mode' = "train"
    /\ UNCHANGED <<cfgVars, stub, epo, batch_idx, pre_epo, measVars, fileVars, logVars,
                   events, saved, ended, ev_batches, ev_result,
                   test_out, rw_in, rw_out, ix_in, ix_out, train_pass>>

\* fit() up to the epoch loop (SeqGANTrainer: up to train_generator)
FitStart ==
    /\ pc = "ready"
    /\ epo' = FirstEpoch(self)
    /\ pre_epo' = 0
    /\ pc' = IF variant = "SeqGANTrainer" THEN "pre_gen" ELSE "loop"
    /\ UNCHANGED <<cfgVars, stub, exc, resume, self, mode, batch_idx, measVars, fileVars,
                   runs, logVars, events, saved, ended, evVars>>

\* SeqGANTrainer.train_generator: one of its epochs, or its return
PretrainGenerator ==
    /\ pc = "pre_gen"
    /\ IF pre_epo < PretrainEpochs
       THEN /\ self' = [self EXCEPT !.generator_optimizer = @ + train_batches,
                                    !.model = @ + train_batches]
            /\ pre_epo' = pre_epo + 1
            /\ pc' = pc
       ELSE /\ pc' = "pre_dis"
            /\ pre_epo' = 0
            /\ self' = self
    /\ UNCHANGED <<cfgVars, stub, exc, resume, mode, epo, batch_idx, measVars, fileVars,
                   runs, logVars, events, saved, ended, evVars>>

\* SeqGANTrainer.train_discriminator: one of its epochs, or its return
PretrainDiscriminator ==
    /\ pc = "pre_dis"
    /\ IF pre_epo < PretrainEpochs
       THEN /\ self' = [self EXCEPT !.discriminator_optimizer = @ + train_batches,
                                    !.model = @ + train_batches]
            /\ pre_epo' = pre_epo + 1
            /\ pc' = pc
       ELSE /\ pc' = "loop"
            /\ pre_epo' = 0
            /\ self' = self
    /\ UNCHANGED <<cfgVars, stub, exc, resume, mode, epo, batch_idx, measVars, fileVars,
                   runs, logVars, events, saved, ended, evVars>>

\* the head of `for epo in range(self.start_epoch, epoch_nums)`: enter the
\* body (epoch_i = epo + 1, model.train()) or leave the loop
LoopHead ==
    /\ pc = "loop"
    /\ IF epo < epoch_nums
       THEN /\ self' = [self EXCEPT !.epoch_i = epo + 1]
            /\ mode' = SetFlag(mode, "model", "train")
            /\ batch_idx' = 0
            /\ events' = <<>>
            /\ pc' = "train"
       ELSE /\ pc' = IF FinalLogReads(variant) # <<>> THEN "log" ELSE "done"
            /\ UNCHANGED <<self, mode, batch_idx, events>>
    /\ UNCHANGED <<cfgVars, stub, exc, resume, epo, pre_epo, measVars, fileVars, runs,
                   logVars, saved, ended, evVars>>

\* one batch of _train_epoch
TrainBatch ==
    /\ pc = "train"
    /\ batch_idx < train_batches
    /\ batch_idx' = batch_idx + 1
    /\ self' = TrainStep(variant, self)
    /\ mode' = "train"
    /\ UNCHANGED <<cfgVars, stub, pc, exc, resume, epo, pre_epo, measVars, fileVars, runs,
                   logVars, events, saved, ended, evVars>>

\* _train_epoch returns (GTSTrainer: _scheduler_step follows); the epoch is
\* logged and the evaluation condition is tested
TrainEpochEnd ==
    /\ pc = "train"
    /\ batch_idx = train_batches
    /\ self' = SchedulerStep(variant, self)
    /\ trainLog' = Append(trainLog, epo)
    /\ events' = Append(events, "train")
    /\ pc' = IF EvalDue(variant, epo, epoch_nums) THEN "valid" ELSE "ckpt"
    /\ UNCHANGED <<cfgVars, stub, exc, resume, mode, epo, batch_idx, pre_epo, measVars,
                   fileVars, runs, evalLog, lastSave, ckptLog, saved, ended, evVars>>

\* the first evaluate() call of the evaluation branch
EvalValid ==
    /\ pc = "valid"
    /\ IF variant = "SeqGANTrainer"
       THEN \* self.evaluate() without its eval_set argument
            /\ Raise("TypeError", "evaluate")
            /\ UNCHANGED <<stub, mode, measVars, events>>
       ELSE \E r \in EvaluatorResults(ValidSplit(variant)) :
              LET res == evaluate(variant, r)
              IN /\ mode' = "eval"
                 /\ stub' = Remember(ValidSplit(variant), r)
                 /\ IF res.raised
                    THEN /\ Raise(res.exc, "evaluate")
                         /\ UNCHANGED <<measVars, events>>
                    ELSE /\ valid_equ_ac' = res.equ_ac
                         /\ valid_val_ac' = res.val_ac
                         /\ events' = Append(events, "valid")
                         /\ pc' = "test"
                         /\ UNCHANGED <<exc, test_equ_ac, test_val_ac>>
    /\ UNCHANGED <<cfgVars, resume, self, epo, batch_idx, pre_epo, fileVars, runs, logVars,
                   saved, ended, evVars>>

\* the second evaluate() call: the test split
EvalTest ==
    /\ pc = "test"
    /\ \E r \in EvaluatorResults("test") :
         LET res == evaluate(variant, r)
         IN /\ mode' = "eval"
            /\ stub' = Remember("test", r)
            /\ IF res.raised
               THEN /\ Raise(res.exc, "evaluate")
                    /\ UNCHANGED <<measVars, events, evalLog>>
               ELSE /\ test_equ_ac' = res.equ_ac
                    /\ test_val_ac' = res.val_ac
                    /\ events' = Append(events, "test")
                    /\ evalLog' = Append(evalLog, epo)
                    /\ pc' = "update"
                    /\ UNCHANGED <<exc, valid_equ_ac, valid_val_ac>>
    /\ UNCHANGED <<cfgVars, resume, self, epo, batch_idx, pre_epo, fileVars, runs, trainLog,
                   lastSave, ckptLog, saved, ended, evVars>>

\* `if valid_val_ac >= self.best_valid_value_accuracy:` and its body
BestUpdate ==
    /\ pc = "update"
    /\ IF Improved(valid_val_ac, self)
       THEN /\ self' = UpdateBest(self, valid_equ_ac, valid_val_ac, test_equ_ac, test_val_ac)
            /\ trained_model_file' = SaveModel(self')
            /\ events' = events \o <<"update", "save_model">>
            /\ lastSave' = <<epo>>
       ELSE UNCHANGED <<self, trained_model_file, events, lastSave>>
    \* the four locals are dead from here to their next assignment
    /\ valid_equ_ac' = Zero /\ valid_val_ac' = Zero
    /\ test_equ_ac' = Zero /\ test_val_ac' = Zero
    /\ pc' = "ckpt"
    /\ UNCHANGED <<cfgVars, stub, exc, resume, mode, epo, batch_idx, pre_epo,
                   checkpoint_file, runs, trainLog, evalLog, ckptLog, saved, ended, evVars>>

\* `if epo % 5 == 0: self._save_checkpoint()`, the last statement of the body
Checkpoint ==
    /\ pc = "ckpt"
    /\ IF CkptDue(epo)
       THEN /\ checkpoint_file' = SaveCheckpoint(variant, self)
            /\ saved' = [written |-> TRUE, self |-> self, epo |-> epo]
            /\ ckptLog' = Append(ckptLog, epo)
            /\ events' = Append(events, "ckpt")
       ELSE UNCHANGED <<checkpoint_file, saved, ckptLog, events>>
    /\ epo' = epo + 1
    /\ pc' = "loop"
    /\ UNCHANGED <<cfgVars, stub, exc, resume, self, mode, batch_idx, pre_epo, measVars,
                   trained_model_file, runs, trainLog, evalLog, lastSave, ended, evVars>>

\* the closing logger.info of fit(): its argument tuple reads attributes
FinalLog ==
    /\ pc = "log"
    /\ IF \E i \in DOMAIN FinalLogReads(variant) : FinalLogReads(variant)[i] \notin DOMAIN self
       THEN Raise("AttributeError", "log")
       ELSE pc' = "done" /\ exc' = exc
    /\ UNCHANGED <<cfgVars, stub, resume, self, mode, epo, batch_idx, pre_epo, measVars,
                   fileVars, runs, logVars, events, saved, ended, evVars>>

\* the last statement executed was the _save_checkpoint call of the loop body
AfterCheckpoint == pc = "loop" /\ events # <<>> /\ events[Len(events)] = "ckpt"

\* the process ends: it returned, it raised, or it was killed where it stood.
\* The files stay; everything in memory is gone.
ProcessEnd ==
    /\ pc # "none"
    /\ ended' = [after_ckpt |-> AfterCheckpoint,
                 epo |-> IF AfterCheckpoint THEN epo - 1 ELSE -1]
    /\ pc' = "none"
    /\ exc' = NoExc
    /\ resume' = FALSE
    /\ self' = NoSelf
    /\ mode' = "train"
    /\ epo' = 0 /\ batch_idx' = 0 /\ pre_epo' = 0
    /\ valid_equ_ac' = Zero /\ valid_val_ac' = Zero
    /\ test_equ_ac' = Zero /\ test_val_ac' = Zero
    /\ trainLog' = <<>> /\ evalLog' = <<>> /\ lastSave' = <<>> /\ ckptLog' = <<>>
    /\ events' = <<>>
    /\ ckpt_reads' = 0
    /\ UNCHANGED <<cfgVars, stub, fileVars, runs, saved, ev_batches, ev_result,
                   test_out, rw_in, rw_out, ix_in, ix_out, train_pass>>

\* one trainer process, from construction to the end of fit()
Next ==
    \/ Construct
    \/ FitStart
    \/ PretrainGenerator
    \/ PretrainDiscriminator
    \/ LoopHead
    \/ TrainBatch
    \/ TrainEpochEnd
    \/ EvalValid
    \/ EvalTest
    \/ BestUpdate
    \/ Checkpoint
    \/ FinalLog

Spec == Init /\ [][Next]_vars

\* processes that end anywhere and are followed by a new trainer, which may
\* resume from the checkpoint file
NextResume ==
    \/ Construct
    \/ FitStart
    \/ PretrainGenerator
    \/ PretrainDiscriminator
    \/ LoopHead
    \/ TrainBatch
    \/ TrainEpochEnd
    \/ EvalValid
    \/ EvalTest
    \/ BestUpdate
    \/ Checkpoint
    \/ FinalLog
    \/ ProcessEnd

SpecResume == Init /\ [][NextResume]_vars

\* a trainer and a split for a direct call of evaluate(eval_set)
InitEval ==
    /\ variant \in Variants
    /\ det = FALSE
    /\ epoch_nums = 0
    /\ train_batches = 1
    /\ valid_batches = 0
    /\ test_batches = 0
    /\ ev_batches \in EvalSplits
    /\ NoMethodInputs
    /\ InitCommon

\* evaluate(eval_set) called on the constructed trainer
Evaluate ==
    /\ pc = "ready"
    /\ mode' = "eval"
    /\ LET r == evaluate(variant, ev_batches)
       IN /\ ev_result' = [called |-> TRUE, result |-> r]
          /\ IF r.raised THEN Raise(r.exc, "evaluate")
             ELSE UNCHANGED <<pc, exc>>
    /\ UNCHANGED <<cfgVars, stub, resume, self, epo, batch_idx, pre_epo, measVars,
                   fileVars, runs, logVars, events, saved, ended, ev_batches, opVars>>

NextEval ==
    \/ Construct
    \/ Evaluate

SpecEval == InitEval /\ [][NextEval]_vars

\* the best-metric fields a trainer can hold on splits of one example, as
\* <<valid equ, valid value, test equ, test value>>
BestChoices ==
    {b \in [1..4 -> {Zero, <<1, 1>>}] : Geq(b[2], b[1]) /\ Geq(b[4], b[3])}

\* the attributes of a trainer that has trained e epochs of one batch each
\* and holds the best metrics b
TrainedTrainer(v, e, b) ==
    LET fresh == NewTrainer(v)
        trained == [k \in DOMAIN fresh |->
                      IF k \in OptimizerNames(v) \cup SchedulerNames(v) \cup {"model", "epoch_i"}
                      THEN e ELSE fresh[k]]
    IN UpdateBest(trained, b[1], b[2], b[3], b[4])

\* an earlier process has called _save_checkpoint and ended
InitLoad ==
    /\ variant \in Variants
    /\ det = FALSE
    /\ epoch_nums = MaxEpochNums
    /\ train_batches = 1
    /\ valid_batches = 1
    /\ test_batches = 1
    /\ ev_batches = <<>>
    /\ NoMethodInputs
    /\ InitProcess
    /\ \E e \in 1..MaxEpochNums, b \in BestChoices :
         /\ saved = [written |-> TRUE, self |-> TrainedTrainer(variant, e, b), epo |-> e - 1]
         /\ checkpoint_file = SaveCheckpoint(variant, TrainedTrainer(variant, e, b))

\* between two processes the record at checkpoint_path is replaced by one
\* that lacks one of its keys
LoseKey ==
    /\ pc = "none"
    /\ checkpoint_file = SaveCheckpoint(variant, saved.self)
    /\ \E k \in DOMAIN checkpoint_file.data :
         checkpoint_file' =
             [exists |-> TRUE,
              data |-> [j \in DOMAIN checkpoint_file.data \ {k} |-> checkpoint_file.data[j]]]
    /\ UNCHANGED <<cfgVars, stub, pc, exc, resume, self, mode, epo, batch_idx, pre_epo,
                   measVars, trained_model_file, runs, logVars, events, saved, ended, evVars>>

\* trainers constructed over a checkpoint record, complete or lacking a key
NextLoad ==
    \/ LoseKey
    \/ Construct
    \/ ProcessEnd

SpecLoad == InitLoad /\ [][NextLoad]_vars

\* a SeqGANTrainer and the arguments of a get_reward call of its _train_batch
InitReward ==
    /\ variant = "SeqGANTrainer"
    /\ det = FALSE
    /\ epoch_nums = 0
    /\ train_batches = 1
    /\ valid_batches = 0
    /\ test_batches = 0
    /\ ev_batches = <<>>
    /\ ix_in = <<>>
    /\ rw_in \in RewardInputs
    /\ InitCommon

\* _train_batch up to its get_reward call: the generator is in training
\* mode, the discriminator in evaluation mode
GetReward ==
    /\ pc = "ready"
    /\ mode' = "adversarial"
    /\ LET r == get_reward(rw_in.outputs, rw_in.weighted)
       IN /\ rw_out' = [called |-> TRUE, result |-> r]
          /\ IF r.raised THEN Raise(r.exc, "get_reward")
             ELSE UNCHANGED <<pc, exc>>
    /\ UNCHANGED <<cfgVars, stub, resume, self, epo, batch_idx, pre_epo, measVars,
                   fileVars, runs, logVars, events, saved, ended, ev_batches, ev_result,
                   test_out, rw_in, ix_in, ix_out, train_pass, ckpt_reads>>

NextReward ==
    \/ Construct
    \/ GetReward

SpecReward == InitReward /\ [][NextReward]_vars

\* a trainer, the vocabularies of its dataset and a batch of targets
InitIdx ==
    /\ variant \in Variants
    /\ det = FALSE
    /\ epoch_nums = 0
    /\ train_batches = 1
    /\ valid_batches = 0
    /\ test_batches = 0
    /\ ev_batches = <<>>
    /\ rw_in = <<>>
    /\ ix_in \in Idx2WordInputs
    /\ InitCommon

\* self._idx2word_2idx(batch["equation"]), as _train_batch and _eval_batch
\* call it under config["share_vocab"]; GTSTrainer and SeqGANTrainer define
\* no such method
Idx2Word ==
    /\ pc = "ready"
    /\ LET r == IF variant \in SingleOptimizer
                THEN Idx2Word2Idx(ix_in.in_idx2word, ix_in.out_symbol2idx, ix_in.batch_equation)
                ELSE [raised |-> TRUE, exc |-> "AttributeError"]
       IN /\ ix_out' = [called |-> TRUE, result |-> r]
          /\ IF r.raised THEN Raise(r.exc, "_idx2word_2idx")
             ELSE UNCHANGED <<pc, exc>>
    /\ UNCHANGED <<cfgVars, stub, resume, self, mode, epo, batch_idx, pre_epo, measVars,
                   fileVars, runs, logVars, events, saved, ended, ev_batches, ev_result,
                   test_out, rw_in, rw_out, ix_in, train_pass, ckpt_reads>>

NextIdx ==
    \/ Construct
    \/ Idx2Word

SpecIdx == InitIdx /\ [][NextIdx]_vars

\* _save_checkpoint, first half: torch.save has opened checkpoint_path for
\* writing, which truncates the file, and is writing the record
CheckpointOpen ==
    /\ pc = "ckpt"
    /\ CkptDue(epo)
    /\ checkpoint_file' = TornFile
    /\ pc' = "writing"
    /\ UNCHANGED <<cfgVars, stub, exc, resume, self, mode, epo, batch_idx, pre_epo, measVars,
                   trained_model_file, runs, logVars, events, saved, ended, evVars>>

\* _save_checkpoint, second half: the record is written out and fit() goes on
CheckpointWritten ==
    /\ pc = "writing"
    /\ checkpoint_file' = SaveCheckpoint(variant, self)
    /\ saved' = [written |-> TRUE, self |-> self, epo |-> epo]
    /\ ckptLog' = Append(ckptLog, epo)
    /\ events' = Append(events, "ckpt")
    /\ epo' = epo + 1
    /\ pc' = "loop"
    /\ UNCHANGED <<cfgVars, stub, exc, resume, self, mode, batch_idx, pre_epo, measVars,
                   trained_model_file, runs, trainLog, evalLog, lastSave, ended, evVars>>

\* an epoch that writes no checkpoint
CheckpointSkipped ==
    /\ ~CkptDue(epo)
    /\ Checkpoint

\* the process is killed while torch.save is writing the checkpoint
KillInWrite ==
    /\ pc = "writing"
    /\ ProcessEnd

\* runs whose checkpoint write takes two steps and can be killed in between,
\* each followed by a new trainer
NextKill ==
    \/ Construct
    \/ FitStart
    \/ PretrainGenerator
    \/ PretrainDiscriminator
    \/ LoopHead
    \/ TrainBatch
    \/ TrainEpochEnd
    \/ EvalValid
    \/ EvalTest
    \/ BestUpdate
    \/ CheckpointOpen
    \/ CheckpointWritten
    \/ CheckpointSkipped
    \/ FinalLog
    \/ KillInWrite

SpecKill == Init /\ [][NextKill]_vars

\* a batch of _train_epoch raises in _train_batch (the forward pass or the
\* loss), before backward() and optimizer.step()
TrainBatchRaises ==
    /\ pc = "train"
    /\ batch_idx < train_batches
    /\ Raise("RuntimeError", "train")
    /\ UNCHANGED <<cfgVars, stub, resume, self, mode, epo, batch_idx, pre_epo, measVars,
                   fileVars, runs, logVars, events, saved, ended, evVars>>

\* one trainer process whose training batches can fail
NextFail ==
    \/ Next
    \/ TrainBatchRaises

SpecFail == Init /\ [][NextFail]_vars

\* a GTSTrainer, over runs long enough for its evaluation schedule to differ
\* from that of the other variants
InitGTS ==
    /\ variant = "GTSTrainer"
    /\ det = FALSE
    /\ epoch_nums \in 0..GtsMaxEpochNums
    /\ train_batches \in TrainPassSizes
    /\ valid_batches \in EvalSplitSizes
    /\ test_batches \in EvalSplitSizes
    /\ ev_batches = <<>>
    /\ NoMethodInputs
    /\ InitCommon

\* GTSTrainer: construction and fit(), which has no closing log statement
NextGTS ==
    \/ Construct
    \/ FitStart
    \/ LoopHead
    \/ TrainBatch
    \/ TrainEpochEnd
    \/ EvalValid
    \/ EvalTest
    \/ BestUpdate
    \/ Checkpoint

SpecGTS == InitGTS /\ [][NextGTS]_vars

\* _train_epoch up to its batch loop: the totals are zeroed and the model is
\* put in training mode
TrainPassStart ==
    /\ pc = "train"
    /\ train_pass.epo # epo
    /\ mode' = SetFlag(mode, "model", "train")
    /\ LET prog == BatchProgram(variant)
       IN train_pass' =
            [epo |-> epo, i |-> 0,
             ops |-> << <<"train", "model", 0>> >>,
             batch_loss |-> [l \in {prog[j][2] : j \in {k \in DOMAIN prog : prog[k][1] = "get_loss"}}
                               |-> 0],
             totals |-> [t \in {prog[j][2] : j \in {k \in DOMAIN prog : prog[k][1] = "add"}}
                           |-> 0],
             losses |-> <<>>]
    /\ UNCHANGED <<cfgVars, stub, pc, exc, resume, self, epo, batch_idx, pre_epo, measVars,
                   fileVars, runs, logVars, events, saved, ended, ev_batches, ev_result,
                   test_out, rw_in, rw_out, ix_in, ix_out, ckpt_reads>>

\* the next operation of the current batch of _train_epoch; the batch is over
\* with its last operation
TrainOp ==
    /\ pc = "train"
    /\ train_pass.epo = epo
    /\ batch_idx < train_batches
    /\ LET prog == BatchProgram(variant)
           i == train_pass.i + 1
           op == prog[i]
           last_step == CHOOSE j \in DOMAIN prog :
                          prog[j][1] = "step" /\ \A k \in DOMAIN prog : k > j => prog[k][1] # "step"
           stepped == IF op[1] = "step" THEN StepOptimizers(self, {op[2]}) ELSE self
       IN /\ self' = IF i = last_step THEN [stepped EXCEPT !.model = @ + 1] ELSE stepped
          /\ mode' = IF op[1] \in {"train", "eval"} THEN SetFlag(mode, op[2], op[1]) ELSE mode
          /\ batch_idx' = IF i = Len(prog) THEN batch_idx + 1 ELSE batch_idx
          /\ \E l \in Losses :
               train_pass' =
                 [train_pass EXCEPT
                    !.i = IF i = Len(prog) THEN 0 ELSE i,
                    !.ops = Append(@, <<op[1], op[2], batch_idx + 1>>),
                    !.batch_loss = CASE op[1] = "get_loss" -> SetAttr(@, op[2], l)
                                     [] op[1] = "reset" -> SetAttr(@, op[2], 0)
                                     [] OTHER -> @,
                    !.losses = IF op[1] = "get_loss" THEN Append(@, <<op[2], l>>) ELSE @,
                    !.totals = IF op[1] = "add"
                               THEN SetAttr(@, op[2],
                                            @[op[2]] + train_pass.batch_loss[LossSource(op[2])])
                               ELSE @]
    /\ UNCHANGED <<cfgVars, stub, pc, exc, resume, epo, pre_epo, measVars,
                   fileVars, runs, logVars, events, saved, ended, ev_batches, ev_result,
                   test_out, rw_in, rw_out, ix_in, ix_out, ckpt_reads>>

\* the configuration and data of runs followed operation by operation
InitOps ==
    /\ variant \in Variants
    /\ det = FALSE
    /\ epoch_nums \in 0..OpsMaxEpochNums
    /\ train_batches \in TrainPassSizes
    /\ valid_batches \in EvalSplitSizes
    /\ test_batches \in EvalSplitSizes
    /\ ev_batches = <<>>
    /\ NoMethodInputs
    /\ InitCommon

\* one trainer process whose training passes go operation by operation
NextOps ==
    \/ Construct
    \/ FitStart
    \/ PretrainGenerator
    \/ PretrainDiscriminator
    \/ LoopHead
    \/ TrainPassStart
    \/ TrainOp
    \/ TrainEpochEnd
    \/ EvalValid
    \/ EvalTest
    \/ BestUpdate
    \/ Checkpoint
    \/ FinalLog

SpecOps == InitOps /\ [][NextOps]_vars

\* the file at the checkpoint path, in place of the best-model file
LoadModelFromCheckpoint == checkpoint_file

\* _load_model: torch.load(self.config["trained_model_path"])
LoadModelFile == trained_model_file

\* test() called on a constructed trainer that is not inside fit(): before
\* fit(), after fit() returned, or after its closing log raised and the caller
\* caught it. SeqGANTrainer inherits AbstractTrainer.test.
Test ==
    /\ pc \in {"ready", "done"} \/ (pc = "raised" /\ exc.at = "log")
    /\ IF variant = "SeqGANTrainer"
       THEN /\ Raise("NotImplementedError", "test")
            /\ test_out' = [called |-> TRUE, loaded |-> FALSE]
            /\ UNCHANGED <<self, mode>>
       ELSE IF ~LoadModelFile.exists
       THEN /\ Raise("FileNotFoundError", "test")
            /\ test_out' = [called |-> TRUE, loaded |-> FALSE]
            /\ UNCHANGED <<self, mode>>
       ELSE /\ self' = SetAttr(self, "model", LoadModelFile.data.model)
            /\ mode' = "eval"
            /\ \E r \in SplitResults(BatchCount("test")) :
                 LET acc == EvalLoop(variant, r, [value_ac |-> 0, equation_ac |-> 0,
                                                  eval_total |-> 0])
                     ret == EvalReturn(acc)
                 IN /\ test_out' = [called |-> TRUE, loaded |-> TRUE, passes |-> 1,
                                     batches |-> Len(r), total |-> acc.eval_total]
                    /\ IF ret.raised THEN Raise(ret.exc, "test")
                       ELSE pc' = "tested" /\ exc' = NoExc
    /\ UNCHANGED <<cfgVars, stub, resume, epo, batch_idx, pre_epo, measVars, fileVars,
                   runs, logVars, events, saved, ended, ev_batches, ev_result,
                   rw_in, rw_out, ix_in, ix_out, train_pass, ckpt_reads>>

\* one trainer process: construction, fit(), test()
NextTest ==
    \/ Next
    \/ Test

SpecTest == Init /\ [][NextTest]_vars

\* a single-optimizer trainer over a deterministic model and evaluator stub
InitDet ==
    /\ variant \in SingleOptimizer
    /\ det = TRUE
    /\ InitFit
    /\ InitCommon

\* the process is interrupted right after a checkpoint write
Interrupt ==
    /\ AfterCheckpoint
    /\ ProcessEnd

\* deterministic runs that are interrupted only right after a checkpoint
\* write, each followed by a new trainer
NextDet ==
    \/ Construct
    \/ FitStart
    \/ LoopHead
    \/ TrainBatch
    \/ TrainEpochEnd
    \/ EvalValid
    \/ EvalTest
    \/ BestUpdate
    \/ Checkpoint
    \/ FinalLog
    \/ Interrupt

SpecDet == InitDet /\ [][NextDet]_vars

\* deterministic runs that are interrupted at any point, each followed by a
\* new trainer
NextAnyPoint ==
    \/ Construct
    \/ FitStart
    \/ LoopHead
    \/ TrainBatch
    \/ TrainEpochEnd
    \/ EvalValid
    \/ EvalTest
    \/ BestUpdate
    \/ Checkpoint
    \/ FinalLog
    \/ ProcessEnd

SpecAnyPoint == InitDet /\ [][NextAnyPoint]_vars

\* ------------------------------------------------------------- the claims
Range(seq) == {seq[i] : i \in DOMAIN seq}

Last(seq) == seq[Len(seq)]

\* the process is inside fit()
InFit ==
    \/ pc \in {"pre_gen", "pre_dis", "loop", "train", "valid", "test", "update", "ckpt",
               "log", "done"}
    \/ pc = "raised" /\ exc.at # "__init__"

\* the process is inside the body of the epoch loop
InBody == pc \in {"train", "valid", "test", "update", "ckpt"}

\* the epoch loop has been left through its head
LoopDone == pc \in {"log", "done"} \/ (pc = "raised" /\ exc.at = "log")

BestFields(s) ==
    <<s.best_valid_equ_accuracy, s.best_valid_value_accuracy,
      s.best_test_equ_accuracy, s.best_test_value_accuracy>>

\* C1: in fit() of the single-optimizer variants the training passes are
\* those of the epochs start_epoch, start_epoch + 1, ..., each once and in
\* this order, none at or after epoch_nums, all of them once the loop is
\* left; epoch_i is epo + 1 throughout the body; and with
\* start_epoch >= epoch_nums there is no training pass, evaluation,
\* best-model save or checkpoint write.
C1_EpochsOnceInOrder ==
    (variant \in SingleOptimizer /\ InFit) =>
        /\ \A i \in DOMAIN trainLog :
             trainLog[i] = self.start_epoch + i - 1 /\ trainLog[i] < epoch_nums
        /\ InBody =>
             /\ self.epoch_i = epo + 1
             /\ Len(trainLog) = epo - self.start_epoch + (IF pc = "train" THEN 0 ELSE 1)
        /\ LoopDone =>
             Len(trainLog) = IF epoch_nums > self.start_epoch
                             THEN epoch_nums - self.start_epoch ELSE 0
        /\ self.start_epoch >= epoch_nums =>
             /\ trainLog = <<>> /\ evalLog = <<>> /\ lastSave = <<>> /\ ckptLog = <<>>
             /\ ~InBody

\* a resumed fit() that has run its epochs 1..5 and left the loop
C1_Witness ==
    /\ variant \in SingleOptimizer /\ resume /\ LoopDone
    /\ self.start_epoch = 1
    /\ trainLog = <<1, 2, 3, 4, 5>>

\* C2: at an evaluation point, if the value accuracy just measured for
\* validation is >= best_valid_value_accuracy, the four best-metric fields
\* become the four accuracies just measured and the best-model file becomes
\* the current model; otherwise the fields and the file stay as they are.
C2_UpdateRule ==
    [][pc = "update" =>
         IF Geq(valid_val_ac, self.best_valid_value_accuracy)
         THEN /\ BestFields(self') = <<valid_equ_ac, valid_val_ac, test_equ_ac, test_val_ac>>
              /\ trained_model_file' = [exists |-> TRUE, data |-> [model |-> self.model]]
         ELSE /\ BestFields(self') = BestFields(self)
              /\ trained_model_file' = trained_model_file]_vars

\* an evaluation point that tied the recorded best and saved the model again
C2_Witness ==
    /\ pc = "ckpt" /\ lastSave = <<epo>> /\ epo > 0
    /\ trained_model_file.data.model = self.model
    /\ "save_model" \in Range(events)

\* C3 as stated: each of the four best-metric fields is non-decreasing from
\* one step of a fit() run to the next.
C3_AllFourNonDecreasing ==
    [][(InFit /\ InFit') =>
         \A i \in 1..4 : Geq(BestFields(self')[i], BestFields(self)[i])]_vars

\* C3, amended: best_valid_value_accuracy is non-decreasing during a fit()
\* run; the other three fields are overwritten at every evaluation point
\* whose validation value accuracy is >= the recorded best.
C3_ValidValueNonDecreasing ==
    [][(InFit /\ InFit') =>
         /\ Geq(self'.best_valid_value_accuracy, self.best_valid_value_accuracy)
         /\ (pc = "update" /\ Geq(valid_val_ac, self.best_valid_value_accuracy)) =>
              /\ self'.best_valid_equ_accuracy = valid_equ_ac
              /\ self'.best_test_equ_accuracy = test_equ_ac
              /\ self'.best_test_value_accuracy = test_val_ac]_vars

\* a later evaluation point has raised best_valid_value_accuracy to 1 while
\* the test value accuracy recorded with it is 0
C3_Witness ==
    /\ pc = "ckpt" /\ lastSave = <<epo>> /\ epo > 0
    /\ self.best_valid_value_accuracy = <<1, 1>>
    /\ self.best_test_value_accuracy = Zero

C5_CheckpointEveryFifth ==
    (InFit /\ valid_batches > 0 /\ test_batches > 0) =>
        \A e \in Range(trainLog) :
           (e < epo \/ pc = "raised") => (e \in Range(ckptLog) <=> e % 5 = 0)

\* C6: the steps of an epoch come in the order training pass, validation
\* evaluation, test evaluation, best-metric update with best-model save,
\* checkpoint write; the next epoch starts from a complete sequence; and a
\* checkpoint written in an epoch holds the best-metric fields as that
\* epoch's evaluation left them.
C6_StepOrder ==
    (variant \in SingleOptimizer /\ InFit /\ events # <<>>) =>
        LET cur == IF InBody \/ (pc = "raised" /\ exc.at = "evaluate") THEN epo ELSE epo - 1
            ev == IF cur % 2 = 0 \/ cur > epoch_nums - 5
                  THEN {<<"train", "valid", "test">>,
                        <<"train", "valid", "test", "update", "save_model">>}
                  ELSE {<<"train">>}
            full == {x \o (IF cur % 5 = 0 THEN <<"ckpt">> ELSE <<>>) : x \in ev}
        IN /\ \E f \in full : \E n \in 1..Len(f) : events = SubSeq(f, 1, n)
           /\ pc = "loop" => events \in full
           /\ Last(events) = "ckpt" =>
                /\ checkpoint_file.exists
                /\ checkpoint_file.data.best_valid_value_accuracy = self.best_valid_value_accuracy
                /\ checkpoint_file.data.best_valid_equ_accuracy = self.best_valid_equ_accuracy
                /\ checkpoint_file.data.best_test_value_accuracy = self.best_test_value_accuracy
                /\ checkpoint_file.data.best_test_equ_accuracy = self.best_test_equ_accuracy

\* epoch 0 of a run was evaluated, improved the best metrics to a validation
\* value accuracy of 1 and a test value accuracy of 0, and was checkpointed
C6_Witness ==
    /\ variant \in SingleOptimizer /\ pc = "loop"
    /\ events = <<"train", "valid", "test", "update", "save_model", "ckpt">>
    /\ checkpoint_file.data.best_valid_value_accuracy = <<1, 1>>
    /\ checkpoint_file.data.best_test_value_accuracy = Zero

\* C7 as stated: fit() of Trainer, SingleEquationTrainer and
\* MultiEquationTrainer, once its epoch loop is left, reports the final best
\* metrics and returns without raising.
C7_ReturnsNormally ==
    (variant \in {"Trainer", "SingleEquationTrainer", "MultiEquationTrainer"} /\ LoopDone) =>
        pc # "raised"

\* C8: a single-optimizer trainer constructed with resume set has, before
\* its first epoch, the four best-metric fields of the trainer that wrote the
\* checkpoint and start_epoch equal to that trainer's epoch_i, which is the
\* index after the epoch that wrote it.
C8_ResumeRestores ==
    (variant \in SingleOptimizer /\ pc = "ready" /\ resume) =>
        /\ saved.written
        /\ BestFields(self) = BestFields(saved.self)
        /\ self.start_epoch = saved.self.epoch_i
        /\ self.start_epoch = saved.epo + 1

\* a trainer resumed from the checkpoint of epoch 5 with a best validation
\* value accuracy of 1
C8_Witness ==
    /\ variant \in SingleOptimizer /\ pc = "ready" /\ resume
    /\ self.start_epoch = 6
    /\ self.best_valid_value_accuracy = <<1, 1>>
    /\ self.best_test_value_accuracy = Zero

\* one epoch of an uninterrupted run of variant v on the stub: the training
\* pass, then the evaluation and best-metric update if the epoch is due
RefEpoch(v, r, e) ==
    LET RECURSIVE Train(_, _)
        Train(s, k) == IF k = 0 THEN s ELSE Train(TrainStep(v, s), k - 1)
        s1 == Train(r.self, train_batches)
        kv == StubKey(s1.model, ValidSplit(v))
        kt == StubKey(s1.model, "test")
    IN IF ~r.ok \/ ~EvalDue(v, e, epoch_nums) THEN [r EXCEPT !.self = s1]
       ELSE IF kv \notin DOMAIN stub \/ kt \notin DOMAIN stub THEN [r EXCEPT !.ok = FALSE]
       ELSE LET rv == evaluate(v, stub[kv])
                rt == evaluate(v, stub[kt])
            IN IF rv.raised \/ rt.raised THEN [r EXCEPT !.ok = FALSE]
               ELSE IF Improved(rv.val_ac, s1)
                    THEN LET s2 == UpdateBest(s1, rv.equ_ac, rv.val_ac, rt.equ_ac, rt.val_ac)
                         IN [ok |-> TRUE, self |-> s2, file |-> SaveModel(s2)]
                    ELSE [r EXCEPT !.self = s1]

\* the uninterrupted run of the epochs e..epoch_nums-1
RECURSIVE RefRun(_, _, _)
RefRun(v, r, e) == IF e >= epoch_nums THEN r ELSE RefRun(v, RefEpoch(v, r, e), e + 1)

\* C9: on a deterministic stub, a single-optimizer fit() that was
\* interrupted right after a checkpoint write and resumed from that
\* checkpoint trains exactly the epochs after the checkpoint's, evaluates
\* those of them that are due, and leaves the loop with the four best-metric
\* fields, the optimizer step count and the best-model file of the
\* uninterrupted run from epoch 0.
C9_ResumeEquivalent ==
    (variant \in SingleOptimizer /\ det /\ resume /\ ended.after_ckpt /\ LoopDone) =>
        LET ref == RefRun(variant, [ok |-> TRUE, self |-> NewTrainer(variant), file |-> NoFile], 0)
        IN /\ ref.ok
           /\ BestFields(self) = BestFields(ref.self)
           /\ self.optimizer = ref.self.optimizer
           /\ self.model = ref.self.model
           /\ trained_model_file = ref.file
           /\ Range(trainLog) = (ended.epo + 1)..(epoch_nums - 1)
           /\ Range(evalLog) = {e \in (ended.epo + 1)..(epoch_nums - 1) :
                                  e % 2 = 0 \/ e > epoch_nums - 5}
           /\ Len(trainLog) = Cardinality(Range(trainLog))
           /\ Len(evalLog) = Cardinality(Range(evalLog))

\* a run interrupted after the checkpoint of epoch 0 was resumed, ran the
\* epochs 1..5 and improved on the checkpoint's best metrics on the way
C9_Witness ==
    /\ variant \in SingleOptimizer /\ det /\ resume /\ ended.after_ckpt /\ LoopDone
    /\ ended.epo = 0
    /\ trainLog = <<1, 2, 3, 4, 5>>
    /\ self.optimizer = 6
    /\ checkpoint_file.data.start_epoch = 6
    /\ lastSave # <<>>
    /\ self.best_valid_value_accuracy = <<1, 1>>

\* the examples of the split: <<batch, position in the batch>>
EvExamples == UNION {{<<i, j>> : j \in DOMAIN ev_batches[i]} : i \in DOMAIN ev_batches}

C11_EmptySplitReturnsZero ==
    (ev_result.called /\ ev_batches = <<>>) =>
        /\ ~ev_result.result.raised
        /\ ev_result.result.equ_ac = Zero
        /\ ev_result.result.val_ac = Zero
        /\ ev_result.result.total = 0

\* C12: a test() call that gets past _load_model has the weights of the
\* best-model file, has made one pass over the batches of the test split,
\* and every test() call, raising or not, leaves the four best-metric
\* fields, start_epoch, epoch_i, the checkpoint file and the best-model file
\* as they were.
C12_TestFrame ==
    [][(test_out'.called /\ ~test_out.called) =>
          /\ BestFields(self') = BestFields(self)
          /\ self'.start_epoch = self.start_epoch
          /\ self'.epoch_i = self.epoch_i
          /\ checkpoint_file' = checkpoint_file
          /\ trained_model_file' = trained_model_file
          /\ test_out'.loaded =>
                /\ trained_model_file.exists
                /\ self'.model = trained_model_file.data.model
                /\ test_out'.passes = 1
                /\ test_out'.batches = test_batches
                /\ mode' = "eval"]_vars

\* test() returned after a fit() whose best-model file holds other weights
\* than the trainer had and than the checkpoint file holds
C12_Witness ==
    /\ test_out.called /\ test_out.loaded /\ pc = "tested"
    /\ checkpoint_file.exists
    /\ checkpoint_file.data.model = 6
    /\ trained_model_file.data.model = 1
    /\ self.model = 1
    /\ self.best_valid_value_accuracy = <<1, 1>>
    /\ test_out.total = 1

\* the keys under which GTSTrainer._save_checkpoint stores its optimizers,
\* with the attribute each is read into
GTSOptimizerKeys ==
    {<<"embedder_optimizer", "embedder_optimizer">>,
     <<"encoder_optimizer", "encoder_optimizer">>,
     <<"decoder_optimizer", "decoder_optimizer">>,
     <<"generate_optimizer", "node_generater_optimizer">>,
     <<"merge_optimizer", "merge_optimizer">>}

\* the process was constructed with config["resume"] and has run its load
Loaded == resume /\ (pc = "ready" \/ (pc = "raised" /\ exc.at = "__init__"))

\* C13: the record GTSTrainer._save_checkpoint writes holds the state of each
\* of the five optimizers under a key of its own, and a GTSTrainer resumed
\* from a record that lacks one of these five keys raises KeyError with the
\* optimizer of the missing key not restored.
C13_FiveOptimizerKeys ==
    variant = "GTSTrainer" =>
        /\ LET rec == CheckPnt(variant, saved.self)
           IN /\ Cardinality({p[1] : p \in GTSOptimizerKeys}) = 5
              /\ \A p \in GTSOptimizerKeys :
                    p[1] \in DOMAIN rec /\ rec[p[1]] = saved.self[p[2]]
        /\ \A p \in GTSOptimizerKeys :
              (Loaded /\ checkpoint_file.exists /\ p[1] \notin DOMAIN checkpoint_file.data) =>
                  /\ pc = "raised"
                  /\ exc.type = "KeyError"
                  /\ self[p[2]] = 0

\* a GTSTrainer resumed from a record without "merge_optimizer" raised after
\* it had restored the four optimizers read before it
C13_Witness ==
    /\ variant = "GTSTrainer" /\ Loaded
    /\ "merge_optimizer" \notin DOMAIN checkpoint_file.data
    /\ pc = "raised" /\ exc.type = "KeyError"
    /\ saved.self.merge_optimizer = 2
    /\ self.node_generater_optimizer = 2
    /\ self.merge_optimizer = 0

\* the record at checkpoint_path is the one the earlier process wrote
OwnRecord == checkpoint_file = SaveCheckpoint(variant, saved.self)

\* C14: a GTSTrainer resumed from the record its own _save_checkpoint wrote
\* is constructed without error and has the five optimizer states, the five
\* scheduler states, the four best-metric fields of the saving trainer and
\* start_epoch = its epoch_i.
C14_GTSRoundTrip ==
    (variant = "GTSTrainer" /\ Loaded /\ OwnRecord) =>
        /\ pc = "ready"
        /\ \A k \in OptimizerNames(variant) \cup SchedulerNames(variant) :
              self[k] = saved.self[k]
        /\ self.start_epoch = saved.self.epoch_i
        /\ BestFields(self) = BestFields(saved.self)

\* C15: the record SeqGANTrainer._save_checkpoint writes holds the weights,
\* the two optimizer states, the start epoch and the four best accuracies,
\* and a SeqGANTrainer resumed from it is constructed without error with
\* start_epoch and the four best-metric fields of the saving trainer.
C15_SeqGANRoundTrip ==
    variant = "SeqGANTrainer" =>
        /\ {"model", "generator_optimizer", "discriminator_optimizer", "start_epoch",
            "best_valid_value_accuracy", "best_valid_equ_accuracy",
            "best_test_value_accuracy", "best_test_equ_accuracy"}
              \subseteq DOMAIN CheckPnt(variant, saved.self)
        /\ (Loaded /\ OwnRecord) =>
              /\ pc = "ready"
              /\ self.start_epoch = saved.self.epoch_i
              /\ BestFields(self) = BestFields(saved.self)

\* C18: a trainer whose _load_checkpoint raised on a missing key has its
\* weights, optimizer states, start_epoch and four best-metric fields as
\* _build_optimizer left them before the load.
C18_NoPartialRestore ==
    (Loaded /\ pc = "raised" /\ exc.type = "KeyError") =>
        LET before == BuildOptimizer(variant, NewTrainer(variant))
        IN /\ self.model = before.model
           /\ \A k \in OptimizerNames(variant) : self[k] = before[k]
           /\ self.start_epoch = before.start_epoch
           /\ BestFields(self) = BestFields(before)

\* the rollout steps at which at least one generated token is not padding
RwLiveSteps == {i \in DOMAIN rw_in.weighted : \E b \in DOMAIN rw_in.outputs :
                                                 rw_in.outputs[b][i] # "pad"}

\* the arguments of the call with the rollout steps outside keep removed
RECURSIVE RwKeep(_, _)
RwKeep(seq, keep) ==
    IF seq = <<>> THEN <<>>
    ELSE (IF Len(seq) \in keep THEN RwKeep(SubSeq(seq, 1, Len(seq) - 1), keep) \o <<seq[Len(seq)]>>
          ELSE RwKeep(SubSeq(seq, 1, Len(seq) - 1), keep))

\* C16 as stated: the reward of a batch whose target tokens are all padding
\* is exactly zero.
C16_AllPadTargetsZeroReward ==
    (rw_out.called /\ rw_in.equation_all_pad) =>
        ~rw_out.result.raised /\ rw_out.result.value = Zero

\* C16, amended: get_reward never divides by zero; a rollout step at which
\* every generated token is padding contributes nothing (the reward is that
\* of the call without these steps); and the reward is exactly zero when
\* every generated token of the batch is padding.
C16_MaskedStepsContributeNothing ==
    rw_out.called =>
        /\ ~rw_out.result.raised
        /\ rw_out.result =
              get_reward([b \in DOMAIN rw_in.outputs |-> RwKeep(rw_in.outputs[b], RwLiveSteps)],
                         RwKeep(rw_in.weighted, RwLiveSteps))
        /\ RwLiveSteps = {} => rw_out.result.value = Zero

\* get_reward returned -1/2 on a batch of two whose first rollout step has
\* only padding and whose second has two live positions of weighted rewards
\* -1 and 2
C16_Witness ==
    /\ rw_out.called /\ ~rw_out.result.raised
    /\ Len(rw_in.weighted) = 2 /\ Len(rw_in.outputs) = 2
    /\ RwLiveSteps = {2}
    /\ rw_in.outputs[1][2] = "tok" /\ rw_in.outputs[2][2] = "tok"
    /\ rw_in.weighted[2] = <<-1, 2>>
    /\ rw_out.result.value = <<-1, 2>>

\* the positions (b, i) of the batch whose word the output vocabulary lacks
IxUnknown ==
    {p \in {<<b, i>> : b \in DOMAIN ix_in.batch_equation, i \in 1..IxMaxLen} :
        /\ p[2] \in DOMAIN ix_in.batch_equation[p[1]]
        /\ ix_in.in_idx2word[ix_in.batch_equation[p[1]][p[2]] + 1]
              \notin DOMAIN ix_in.out_symbol2idx}

\* C17: _idx2word_2idx returns a batch of the argument's shape whose entry
\* at (b, i) is out_symbol2idx[in_idx2word[x[b][i]]] when the output
\* vocabulary has the word of every position, and raises without a result
\* when it lacks the word of some position.
C17_Idx2WordMapsEveryPosition ==
    (ix_out.called /\ variant \in SingleOptimizer) =>
        LET x == ix_in.batch_equation
            r == ix_out.result
        IN IF IxUnknown = {}
           THEN /\ ~r.raised
                /\ DOMAIN r.value = DOMAIN x
                /\ \A b \in DOMAIN x :
                      /\ DOMAIN r.value[b] = DOMAIN x[b]
                      /\ \A i \in DOMAIN x[b] :
                            r.value[b][i] = ix_in.out_symbol2idx[ix_in.in_idx2word[x[b][i] + 1]]
           ELSE /\ r.raised
                /\ r.exc = "KeyError"
                /\ "value" \notin DOMAIN r
                /\ pc = "raised"

\* the batch <<0, 1>>, <<1, 0>> over the input words x, plus was mapped to
\* <<5, 1>>, <<1, 5>>
C17_Witness ==
    /\ ix_out.called /\ variant = "TransformerTrainer"
    /\ ix_in.in_idx2word = <<"x", "plus">>
    /\ ix_in.batch_equation = << <<0, 1>>, <<1, 0>> >>
    /\ ~ix_out.result.raised
    /\ ix_out.result.value = << <<5, 1>>, <<1, 5>> >>

\* C19: whenever no process is running, a checkpoint file that exists holds
\* a complete record, and no resumed trainer finds a partially written one.
C19_NeverTorn ==
    /\ (pc = "none" /\ checkpoint_file.exists) => checkpoint_file # TornFile
    /\ ~(pc = "raised" /\ exc.at = "__init__" /\ exc.type = "UnpicklingError")

\* an exception was raised by a training batch or by an evaluation of fit()
FailedInEpoch == exc.at \in {"train", "evaluate"}

\* C20: once a training batch or an evaluation of epoch epo has raised,
\* fit() is left with the exception: the failed epoch and later epochs have
\* no completed training pass after the failure, no completed evaluation, no
\* best-model save and no checkpoint; the checkpoint file is the last one
\* written, in an earlier epoch; and the raising step changes neither the
\* trainer's fields nor a file.
C20_FailurePropagates ==
    /\ [](FailedInEpoch =>
            /\ pc = "raised"
            /\ exc.at = "train" => events = <<>> /\ epo \notin Range(trainLog)
            /\ exc.at = "evaluate" => events \in {<<"train">>, <<"train", "valid">>}
            /\ \A e \in Range(trainLog) : e <= epo
            /\ \A e \in Range(evalLog) \cup Range(ckptLog) \cup Range(lastSave) : e < epo
            /\ checkpoint_file = IF saved.written THEN SaveCheckpoint(variant, saved.self)
                                 ELSE NoFile
            /\ saved.written => saved.epo < epo)
    /\ [][(FailedInEpoch' /\ ~FailedInEpoch) =>
            /\ self' = self
            /\ checkpoint_file' = checkpoint_file
            /\ trained_model_file' = trained_model_file
            /\ UNCHANGED <<epo, logVars>>]_vars

\* a training batch of epoch 3 raised after the evaluation of epoch 2 set the
\* best metrics and after the checkpoint of epoch 0
C20_Witness ==
    /\ pc = "raised" /\ exc.at = "train" /\ epo = 3
    /\ lastSave = <<2>>
    /\ self.best_valid_value_accuracy = <<1, 1>>
    /\ ckptLog = <<0>>
    /\ checkpoint_file.exists

\* C21 as stated: GTSTrainer.fit() evaluates the epoch epo exactly when
\* epo % 2 = 0 or epo > epoch_nums - 5, as the other variants do.
C21_GTSEvalEverySecond ==
    (variant = "GTSTrainer" /\ InFit /\ valid_batches > 0 /\ test_batches > 0) =>
        \A e \in Range(trainLog) :
           (e < epo \/ pc \in {"update", "ckpt"}) =>
              (e \in Range(evalLog) <=> (e % 2 = 0 \/ e > epoch_nums - 5))

\* C22 as stated: the accuracies TransformerTrainer.fit() compares with
\* best_valid_value_accuracy are those of evaluate() on the validation split
\* with the current weights.
C22_BestMeasuredOnValidation ==
    (variant = "TransformerTrainer" /\ det /\ pc = "update") =>
        /\ StubKey(self.model, "valid") \in DOMAIN stub
        /\ LET res == evaluate(variant, stub[StubKey(self.model, "valid")])
           IN ~res.raised /\ valid_val_ac = res.val_ac /\ valid_equ_ac = res.equ_ac

\* C23 as stated: fit() of a freshly constructed SeqGANTrainer raises
\* nothing, and each epoch with epo % 2 = 0 or epo > epoch_nums - 5 that is
\* over has had its evaluation run to completion.
C23_SeqGANEvaluationCompletes ==
    (variant = "SeqGANTrainer" /\ ~resume /\ InFit /\ valid_batches > 0 /\ test_batches > 0) =>
        /\ pc # "raised"
        /\ \A e \in Range(trainLog) :
             (e < epo /\ (e % 2 = 0 \/ e > epoch_nums - 5)) => e \in Range(evalLog)

\* C24 as stated: SeqGANTrainer.fit() runs 20 generator-pretraining epochs in
\* which only generator_optimizer steps, then 20 discriminator-pretraining
\* epochs in which only discriminator_optimizer steps, then the adversarial
\* epochs start_epoch .. epoch_nums - 1, the phases not interleaved.
C24_SeqGANPhases ==
    (variant = "SeqGANTrainer" /\ InFit) =>
        LET pre == PretrainEpochs * train_batches
            adv == Len(trainLog) * train_batches + (IF pc = "train" THEN batch_idx ELSE 0)
        IN /\ pc = "pre_gen" =>
                /\ pre_epo <= PretrainEpochs /\ trainLog = <<>>
                /\ self.generator_optimizer = pre_epo * train_batches
                /\ self.discriminator_optimizer = 0
           /\ pc = "pre_dis" =>
                /\ pre_epo <= PretrainEpochs /\ trainLog = <<>>
                /\ self.generator_optimizer = pre
                /\ self.discriminator_optimizer = pre_epo * train_batches
           /\ pc \notin {"pre_gen", "pre_dis"} =>
                /\ self.generator_optimizer = pre + adv
                /\ self.discriminator_optimizer = pre + adv
                /\ \A i \in DOMAIN trainLog : trainLog[i] = self.start_epoch + i - 1
           /\ pc \in {"done", "raised"} =>
                Range(trainLog) = self.start_epoch .. (epoch_nums - 1)

\* C25 as stated: in every adversarial batch of SeqGANTrainer the backward
\* pass of the generator loss and generator_optimizer.step() come before the
\* switch of the train/eval flags for the discriminator part and before the
\* discriminator's forward pass, backward pass and optimizer step.
C25_GeneratorStepBeforeSwitch ==
    (variant = "SeqGANTrainer" /\ InFit /\ train_pass.epo >= 0) =>
        \A j \in DOMAIN train_pass.ops :
           LET o == train_pass.ops[j]
           IN <<o[1], o[2]>> \in {<<"eval", "generator">>, <<"forward", "discriminator">>,
                                  <<"backward", "binary_loss">>,
                                  <<"step", "discriminator_optimizer">>} =>
                \E k \in 1..(j - 1) :
                   /\ train_pass.ops[k] = <<"step", "generator_optimizer", o[3]>>
                   /\ \E b \in 1..(k - 1) : train_pass.ops[b] = <<"backward", "g_loss", o[3]>>

\* C26 as stated: a checkpoint written by GTSTrainer._save_checkpoint holds
\* ten component states, those of the five optimizers and of the five
\* schedulers, each under a key of its own; the decoder scheduler's is one
\* of them.
C26_FiveSchedulerKeys ==
    (variant = "GTSTrainer" /\ ckptLog # <<>>) =>
        LET components == DOMAIN checkpoint_file.data \
                            ({"model", "start_epoch"} \cup
                             {BestPairs(self)[i][1] : i \in DOMAIN BestPairs(self)})
        IN /\ Cardinality(components) =
                Cardinality(OptimizerNames(variant)) + Cardinality(SchedulerNames(variant))
           /\ "decoder_scheduler" \in components

\* C27 as stated: the five optimizers of GTSTrainer hold pairwise disjoint
\* parameter sets, and the optimizer steps of a batch update the parameters of
\* each submodule exactly once.
C27_DisjointParameterSets ==
    (variant = "GTSTrainer" /\ InFit) =>
        /\ \A o1, o2 \in OptimizerNames(variant) :
             o1 # o2 => OptimizerParams(o1) \cap OptimizerParams(o2) = {}
        /\ \A b \in 1..batch_idx : \A m \in GTSModules :
             Cardinality({j \in DOMAIN train_pass.ops :
                            /\ train_pass.ops[j][1] = "step" /\ train_pass.ops[j][3] = b
                            /\ m \in OptimizerParams(train_pass.ops[j][2])}) = 1

\* C28: in a GTSTrainer.fit() run from epoch 0, after every batch each of the
\* five optimizers has taken one step per batch trained so far; each of the
\* five schedulers has been stepped once per epoch whose training pass is
\* over, the step coming before that epoch's evaluation and checkpoint; and
\* for every step size the five learning rates have been halved
\* floor(completed epochs / step_size) times.
C28_FiveStepTogether ==
    (variant = "GTSTrainer" /\ InFit /\ ~resume) =>
        LET completed == Len(trainLog)
        IN /\ \A o \in OptimizerNames(variant) :
                self[o] = completed * train_batches + (IF pc = "train" THEN batch_idx ELSE 0)
           /\ \A c \in SchedulerNames(variant) :
                /\ self[c] = completed
                /\ \A step_size \in StepSizes :
                     StepLRHalvings(self[c], step_size) = completed \div step_size
           /\ pc = "train" => completed = epo
           /\ pc \in {"valid", "test", "update", "ckpt"} => completed = epo + 1
           /\ (events # <<>> /\ Last(events) = "ckpt") =>
                checkpoint_file.data.merge_scheduler = epo

\* epoch 5 of a run with two batches per epoch has been trained and
\* evaluated: twelve steps of each optimizer, six of each scheduler
C28_Witness ==
    /\ variant = "GTSTrainer" /\ ~resume /\ pc = "ckpt" /\ epo = 5
    /\ train_batches = 2
    /\ self.embedder_optimizer = 12 /\ self.merge_optimizer = 12
    /\ self.decoder_scheduler = 6 /\ self.merge_scheduler = 6
    /\ 5 \in Range(evalLog)

\* the positions in the current training pass of an operation of batch b
OpPos(kind, target, b) ==
    {j \in DOMAIN train_pass.ops : train_pass.ops[j] = <<kind, target, b>>}

\* C29: inside _train_epoch of a single-optimizer variant, each batch has
\* zero-grad, forward, loss accumulation, backward, optimizer step and loss
\* reset in this order, none of them twice, all of them once the batch is
\* over; batch k's loss reset comes before batch k+1's zero-grad; the
\* optimizer has stepped once per batch; and at the return the total loss is
\* the sum of the batch losses and the model is in training mode.
C29_BatchOperationOrder ==
    (variant \in SingleOptimizer /\ pc = "train" /\ train_pass.epo = epo) =>
        LET six == << <<"zero_grad", "model">>, <<"forward", "model">>, <<"add", "loss_total">>,
                      <<"backward", "loss">>, <<"step", "optimizer">>, <<"reset", "loss">> >>
            P(n, b) == OpPos(six[n][1], six[n][2], b)
        IN /\ \A b \in 1..train_batches :
                /\ \A n \in 1..6 :
                     /\ Cardinality(P(n, b)) <= 1
                     /\ b <= batch_idx => Cardinality(P(n, b)) = 1
                     /\ b > batch_idx + 1 => P(n, b) = {}
                /\ \A n \in 1..5 :
                     \A j \in P(n + 1, b) : \E k \in P(n, b) : k < j
                /\ b < train_batches =>
                     \A j \in P(1, b + 1) : \E k \in P(6, b) : k < j
           /\ self.optimizer = epo * train_batches
                                 + Cardinality({j \in DOMAIN train_pass.ops :
                                                  train_pass.ops[j][1] = "step"})
           /\ batch_idx = train_batches =>
                /\ Len(train_pass.losses) = train_batches
                /\ train_pass.totals.loss_total =
                     SumSeq([k \in DOMAIN train_pass.losses |-> train_pass.losses[k][2]])
                /\ mode = "train"

\* the training pass of epoch 1 is about to return after two batches with
\* losses 1 and 2: total loss 3, four optimizer steps since construction
C29_Witness ==
    /\ variant = "Trainer" /\ pc = "train" /\ epo = 1 /\ train_pass.epo = 1
    /\ batch_idx = 2 /\ train_batches = 2
    /\ train_pass.losses = << <<"loss", 1>>, <<"loss", 2>> >>
    /\ train_pass.totals.loss_total = 3
    /\ self.optimizer = 4
    /\ mode = "train"

\* C30: in fit() of the single-optimizer variants every operation of a
\* training batch, the optimizer step among them, starts and ends with the
\* model in training mode; every evaluate() call processes its batches in
\* inference mode and leaves the model in it up to the end of the epoch.
C30_ModesInFit ==
    [][(variant \in SingleOptimizer) =>
          (/\ (pc = "train" /\ train_pass.epo = epo /\ batch_idx < train_batches) =>
                 (mode = "train" /\ mode' = "train")
           /\ pc \in {"valid", "test"} => mode' = "eval"
           /\ (pc \in {"update", "ckpt"} /\ "test" \in Range(events)) =>
                 (mode = "eval" /\ mode' = "eval"))]_vars

\* epoch 0 was evaluated, which left the model in inference mode, and the
\* first batch of epoch 1 has taken its optimizer step in training mode
C30_Witness ==
    /\ variant \in SingleOptimizer /\ pc = "train" /\ epo = 1 /\ train_pass.epo = 1
    /\ evalLog = <<0>>
    /\ batch_idx = 1
    /\ OpPos("step", "optimizer", 1) # {}
    /\ mode = "train"

\* C31: GTSTrainer.evaluate() on a split of at least one batch scores example
\* 0 of each batch and nothing else: its example count is the number of
\* batches, its accuracies are those of the first examples, and the count is
\* the number of examples of the split exactly when every batch holds one
\* example.
C31_GTSOneExamplePerBatch ==
    (ev_result.called /\ variant = "GTSTrainer" /\ ev_batches # <<>>) =>
        LET r == ev_result.result
            n == Len(ev_batches)
            val == Cardinality({i \in DOMAIN ev_batches : ev_batches[i][1][1]})
            equ == Cardinality({i \in DOMAIN ev_batches : ev_batches[i][1][2]})
        IN /\ ~r.raised
           /\ r.total = n
           /\ r.val_ac[1] * n = val * r.val_ac[2]
           /\ r.equ_ac[1] * n = equ * r.equ_ac[2]
           /\ (r.total = Cardinality(EvExamples)) <=>
                 (\A i \in DOMAIN ev_batches : Len(ev_batches[i]) = 1)

\* evaluate() of GTSTrainer returned a count of 2 and a value accuracy of 0
\* on two batches of two examples whose second examples are both correct
C31_Witness ==
    /\ ev_result.called /\ variant = "GTSTrainer"
    /\ Len(ev_batches) = 2 /\ Len(ev_batches[1]) = 2 /\ Len(ev_batches[2]) = 2
    /\ ~ev_batches[1][1][1] /\ ev_batches[1][2][1]
    /\ ~ev_batches[2][1][1] /\ ev_batches[2][2][1]
    /\ ~ev_result.result.raised
    /\ ev_result.result.total = 2
    /\ ev_result.result.val_ac = Zero

\* C32: in a constructed trainer of any variant the checkpoint file has been
\* read once if resume is set and not at all otherwise, whatever the trainer
\* has done since (fit(), its evaluations).
C32_CheckpointReadOnce ==
    pc # "none" => ckpt_reads = (IF resume THEN 1 ELSE 0)

\* the variants whose fit() compares an accuracy measured on the validation
\* split and reaches the comparison
ComparesValidation == variant # "SeqGANTrainer" /\ ValidSplit(variant) = "valid"

\* the first evaluation point of this fit() is behind the process
PastFirstEvaluation == evalLog # <<>> /\ ~(pc = "update" /\ Len(evalLog) = 1)

\* C33: in a fit() run of a fresh trainer, from the first evaluation point on
\* the best-model file holds the weights of the most recent evaluation point
\* whose validation value accuracy was >= the best recorded then, and the
\* four best-metric fields are the measurements of that point; a tie
\* replaces the earlier point. Between evaluation points neither the file
\* nor the fields change.
C33_BestModelIsLatestImprovement ==
    /\ [](( ComparesValidation /\ ~resume /\ InFit /\ PastFirstEvaluation) =>
            /\ lastSave # <<>>
            /\ lastSave[1] \in Range(evalLog)
            /\ trained_model_file =
                 [exists |-> TRUE, data |-> [model |-> (lastSave[1] + 1) * train_batches]])
    /\ [][(ComparesValidation /\ ~resume /\ InFit) =>
            (/\ (pc \in {"valid", "test"}) => (self'.model = self.model)
             /\ (pc = "test" /\ pc' = "update") =>
                    (valid_val_ac' = valid_val_ac /\ valid_equ_ac' = valid_equ_ac)
             /\ IF pc = "update" /\ Geq(valid_val_ac, self.best_valid_value_accuracy)
                THEN /\ self.model = (epo + 1) * train_batches
                     /\ trained_model_file' = [exists |-> TRUE, data |-> [model |-> self.model]]
                     /\ BestFields(self') =
                          <<valid_equ_ac, valid_val_ac, test_equ_ac, test_val_ac>>
                     /\ lastSave' = <<epo>>
                ELSE /\ trained_model_file' = trained_model_file
                     /\ BestFields(self') = BestFields(self)
                     /\ lastSave' = lastSave)]_vars

\* epochs 0, 2 and 3 were evaluated; the file holds the weights of epoch 2,
\* whose accuracy of 1 was not below the best recorded then, and not those of
\* epoch 3, whose accuracy was lower
C33_Witness ==
    /\ variant = "Trainer" /\ ~resume /\ pc = "ckpt" /\ epo = 3
    /\ evalLog = <<0, 2, 3>>
    /\ lastSave = <<2>>
    /\ self.best_valid_value_accuracy = <<1, 1>>
    /\ self.best_test_value_accuracy = <<0, 1>>
    /\ self.model = 4 * train_batches
    /\ trained_model_file.data.model = 3 * train_batches

\* max() of two accuracies
MaxAccuracy(a, b) == IF Geq(a, b) THEN a ELSE b

\* C34: in fit(), fresh or resumed, the update step of an evaluation point
\* leaves best_valid_value_accuracy at the maximum of its value before the
\* step and the validation value accuracy just measured, and no other step
\* of fit() changes it: after every update step it is the maximum of its
\* value at the start of fit() and of the validation value accuracies
\* measured so far.
C34_BestIsRunningMaximum ==
    [][(ComparesValidation /\ InFit /\ pc' # "none") =>
         (/\ (pc = "test" /\ pc' = "update") => (valid_val_ac' = valid_val_ac)
          /\ self'.best_valid_value_accuracy =
               IF pc = "update"
               THEN MaxAccuracy(self.best_valid_value_accuracy, valid_val_ac)
               ELSE self.best_valid_value_accuracy)]_vars

\* a resumed fit() that started with a best validation value accuracy of 1
\* has evaluated an epoch whose accuracy was lower and kept the 1
C34_Witness ==
    /\ ComparesValidation /\ resume /\ pc = "ckpt"
    /\ evalLog # <<>> /\ lastSave = <<>>
    /\ self.best_valid_value_accuracy = <<1, 1>>

\* C35: a fresh single-optimizer trainer with epoch_nums >= 1 and non-empty
\* validation and test splits saves the best-model file at the evaluation
\* point of epoch 0, whatever the accuracies; from then on the file exists,
\* the epoch loop is never left without it, and a test() call that follows
\* the loop loads it.
C35_FirstEvaluationSaves ==
    (/\ variant \in SingleOptimizer /\ ~resume
     /\ epoch_nums >= 1 /\ valid_batches >= 1 /\ test_batches >= 1) =>
        /\ (InFit /\ (pc = "ckpt" \/ epo >= 1)) =>
               /\ 0 \in Range(evalLog)
               /\ lastSave # <<>>
               /\ trained_model_file.exists
        /\ LoopDone => (epo >= 1 /\ trained_model_file.exists)
        /\ (test_out.called /\ trainLog # <<>>) =>
               /\ test_out.loaded
               /\ ~(pc = "raised" /\ exc.type = "FileNotFoundError")

\* test() after a fit() whose every validation accuracy was 0 has loaded the
\* best-model file
C35_Witness ==
    /\ variant \in SingleOptimizer /\ ~resume /\ pc = "tested"
    /\ epoch_nums >= 1
    /\ self.best_valid_value_accuracy = Zero
    /\ lastSave # <<>>
    /\ test_out.called /\ test_out.loaded

\* C36: in fit() of a single-optimizer variant, fresh or resumed, once the
\* end-of-epoch processing of an epoch of this run is over a checkpoint is on
\* disk and the start_epoch it records is at most 4 behind the number of
\* completed epochs: 0 <= (epo + 1) - start_epoch <= 4 for the last completed
\* epoch index epo. When the loop is left the same holds of epoch_nums.
C36_CheckpointAtMostFourBehind ==
    (variant \in SingleOptimizer /\ InFit) =>
        /\ (epo > self.start_epoch) =>
              /\ checkpoint_file.exists
              /\ "start_epoch" \in DOMAIN checkpoint_file.data
              /\ epo - checkpoint_file.data["start_epoch"] \in 0..4
        /\ (LoopDone /\ epoch_nums >= 1) =>
              /\ checkpoint_file.exists
              /\ epoch_nums - checkpoint_file.data["start_epoch"] \in 0..4

\* a resumed fit() has finished epoch 4; the checkpoint on disk is the one
\* written at the end of epoch 0
C36_Witness ==
    /\ variant \in SingleOptimizer /\ resume /\ pc = "loop" /\ epo = 5
    /\ self.start_epoch = 1
    /\ 4 \in Range(trainLog)
    /\ checkpoint_file.exists
    /\ checkpoint_file.data["start_epoch"] = 1

\* the validation value accuracy the deterministic stub gives the weights in
\* the best-model file
BestModelAccuracy ==
    evaluate(variant, stub[StubKey(trained_model_file.data.model, ValidSplit(variant))]).val_ac

\* C37 as stated: in a single-optimizer trainer resumed from the last
\* checkpoint after the previous process was interrupted at any point, the
\* best-model file on disk holds weights whose validation value accuracy is
\* the restored best_valid_value_accuracy.
C37_BestModelMatchesRestoredFields ==
    (variant \in SingleOptimizer /\ resume /\ pc = "ready" /\ trained_model_file.exists) =>
        /\ StubKey(trained_model_file.data.model, ValidSplit(variant)) \in DOMAIN stub
        /\ BestModelAccuracy = self.best_valid_value_accuracy

====
